---------------------------- MODULE Spec2Model ----------------------------
(***************************************************************************)
(* Model of the Instagram content-resolution code of yt-dlpython           *)
(* (src/endpoints/instagram.py): the snapsave decoder get_download_links    *)
(* with its helpers decode_segment, decode_data, extract_params and         *)
(* extract_download_url, the resolver instagram_download with its primary  *)
(* path InstagramDownloader.ig, and the download routes of src/main.py.    *)
(*                                                                         *)
(* A Python str is a sequence of code points (naturals); a Python value    *)
(* whose type matters (the elements of the list handed to decode_data) is  *)
(* a record tagged "str" or "int".  A call that may raise yields a record  *)
(* [ok, val, err]: err names the Python exception type when ok is FALSE.   *)
(***************************************************************************)
EXTENDS Integers, Sequences, FiniteSets, TLC

VARIABLES
    pc,         \* position of the harness that applies the operation
    segment,    \* decode_segment: the segment handed in
    base,       \* decode_segment: size of the source alphabet
    length,     \* decode_segment: size of the target alphabet
    result,     \* decode_segment(segment, base, length)
    back,       \* decode_segment(result, length, base)
    alphabet,   \* substitution: the table part3
    substituted,\* substitution: the segment after the replace loop
    data,       \* decode_data: the list of six (or more, or fewer) values
    accumulated,\* decode_data: outcome of the loop, the accumulator part6
    decoded,    \* decode_data: its outcome, the unquoted accumulator
    text,       \* get_video_url: response.text of the intermediary
    params,     \* get_video_url: outcome of extract_params
    fragment,   \* get_video_url: its outcome, the HTML fragment
    url,        \* get_download_links: the url handed in
    response,   \* get_download_links: outcome of requests.post
    btn_divs,   \* get_download_links: the download-items__btn elements
    ret,        \* get_download_links: what the caller gets
    endpoint,   \* route: "instagram", "audio", "shorts" or "video"
    method,     \* route: "GET" or "POST"
    primary,    \* instagram_download: outcome of downloader.ig(url)
    resolved,   \* instagram_download: what it returned to the route
    calls,      \* the external calls issued so far, in order
    title,      \* route: the title of the response
    primary_url,    \* route: download_urls[0]
    final_filepath, \* route: name of the file in the download directory
    files,      \* the download directory: its files and their sizes
    http,       \* route: the response sent to the client
    filename,   \* get_file: the name asked for
    entries,    \* the download directory: what it holds besides `files`
    sweep       \* clean_downloads_folder: where the daily sweep stands

segVars == <<segment, base, length, result, back>>
subVars == <<alphabet, substituted>>
decVars == <<data, accumulated, decoded>>
vidVars == <<text, params, fragment>>
linkVars == <<url, response, btn_divs, ret>>
reqVars == <<endpoint, method, primary, resolved, calls, title, primary_url,
             final_filepath, files, http>>
fsVars == <<filename, entries, sweep>>
vars == <<pc, segment, base, length, result, back, alphabet, substituted,
          data, accumulated, decoded, text, params, fragment,
          url, response, btn_divs, ret,
          endpoint, method, primary, resolved, calls, title, primary_url,
          final_filepath, files, http, filename, entries, sweep>>

---------------------------------------------------------------------------
(* Characters and strings *)

\* The printable ASCII characters, code points 32..126, in order (the grave
\* accent, code point 96, cannot be written in a string and is spelled out).
Printable ==
    <<" ", "!", "\"", "#", "$", "%", "&", "'", "(", ")", "*", "+", ",", "-",
      ".", "/", "0", "1", "2", "3", "4", "5", "6", "7", "8", "9", ":", ";",
      "<", "=", ">", "?", "@", "A", "B", "C", "D", "E", "F", "G", "H", "I",
      "J", "K", "L", "M", "N", "O", "P", "Q", "R", "S", "T", "U", "V", "W",
      "X", "Y", "Z", "[", "\\", "]", "^", "_", "grave", "a", "b", "c", "d", "e",
      "f", "g", "h", "i", "j", "k", "l", "m", "n", "o", "p", "q", "r", "s",
      "t", "u", "v", "w", "x", "y", "z", "{", "|", "}", "~">>

\* ord(c) of a printable ASCII character written as a one-character string.
Ord(c) == 31 + (CHOOSE i \in 1..Len(Printable) : Printable[i] = c)

\* The Python str whose characters are written one per element.
S(chars) == [i \in 1..Len(chars) |-> Ord(chars[i])]

Min(a, b) == IF a < b THEN a ELSE b
Max(a, b) == IF a > b THEN a ELSE b

\* s[:k] of Python, k of either sign.
Slice(s, k) ==
    IF k >= 0 THEN SubSeq(s, 1, Min(k, Len(s)))
              ELSE SubSeq(s, 1, Max(Len(s) + k, 0))

\* c in s
Contains(s, c) == \E i \in 1..Len(s) : s[i] = c

\* s.index(c), 0-based, of a character that s contains.
IndexOf(s, c) ==
    (CHOOSE i \in 1..Len(s) : s[i] = c /\ \A j \in 1..(i - 1) : s[j] # c) - 1

RECURSIVE Pow(_, _)
Pow(b, e) == IF e = 0 THEN 1 ELSE b * Pow(b, e - 1)

---------------------------------------------------------------------------
(* decode_segment *)

char_set ==
    S(<<"0", "1", "2", "3", "4", "5", "6", "7", "8", "9",
        "a", "b", "c", "d", "e", "f", "g", "h", "i", "j", "k", "l", "m",
        "n", "o", "p", "q", "r", "s", "t", "u", "v", "w", "x", "y", "z",
        "A", "B", "C", "D", "E", "F", "G", "H", "I", "J", "K", "L", "M",
        "N", "O", "P", "Q", "R", "S", "T", "U", "V", "W", "X", "Y", "Z",
        "+", "/">>)

\* Mutant of DecodedValueFrom: enumerates the segment itself, not reversed, so
\* that the first character carries base^0.
RECURSIVE DecodedValueFrom_Forward(_, _, _)
DecodedValueFrom_Forward(seg, b, index) ==
    IF index >= Len(seg) THEN 0
    ELSE LET base_set == Slice(char_set, b)
             char == seg[index + 1]
             term == IF Contains(base_set, char)
                        THEN IndexOf(base_set, char) * Pow(b, index)
                        ELSE 0
         IN  term + DecodedValueFrom_Forward(seg, b, index + 1)

\* Mutant of DecodedValueFrom: a character outside base_set is dropped before
\* the enumeration, so that it occupies no digit position.
RECURSIVE DecodedValueFrom_Skip(_, _, _)
DecodedValueFrom_Skip(seg, b, index) ==
    LET base_set == Slice(char_set, b)
        InBase(c) == Contains(base_set, c)
        kept == SelectSeq(seg, InBase)
    IN  IF index >= Len(kept) THEN 0
        ELSE IndexOf(base_set, kept[Len(kept) - index]) * Pow(b, index)
                 + DecodedValueFrom_Skip(seg, b, index + 1)

\* The loop over enumerate(reversed(segment)): index 0 is the LAST character
\* of the segment.  Sums the terms of the indices index..len(segment)-1.
RECURSIVE DecodedValueFrom(_, _, _)
DecodedValueFrom(seg, b, index) ==
    IF index >= Len(seg) THEN 0
    ELSE LET base_set == Slice(char_set, b)
             char == seg[Len(seg) - index]
             term == IF Contains(base_set, char)
                        THEN IndexOf(base_set, char) * Pow(b, index)
                        ELSE 0
         IN  term + DecodedValueFrom(seg, b, index + 1)

decoded_value(seg, b) == DecodedValueFrom(seg, b, 0)

\* Mutant of RenderLoop: appends each digit instead of prepending it.
RECURSIVE RenderLoop_Append(_, _, _)
RenderLoop_Append(value, len, res) ==
    IF value > 0
        THEN RenderLoop_Append(value \div len, len,
                               res \o <<Slice(char_set, len)[(value % len) + 1]>>)
        ELSE res

\* The while loop: prepend decode_set[value % length], divide, until 0.
RECURSIVE RenderLoop(_, _, _)
RenderLoop(value, len, res) ==
    IF value > 0
        THEN RenderLoop(value \div len, len,
                        <<Slice(char_set, len)[(value % len) + 1]>> \o res)
        ELSE res

\* Mutant of decode_segment: without the `or "0"` of the return.
decode_segment_NoZero(seg, b, len) ==
    RenderLoop(decoded_value(seg, b), len, <<>>)

\* decode_segment(segment, base, length) for length >= 2 (length = 1 does not
\* terminate on a positive value, length = 0 divides by zero).
decode_segment(seg, b, len) ==
    LET res == RenderLoop(decoded_value(seg, b), len, <<>>)
    IN  IF res # <<>> THEN res ELSE S(<<"0">>)

---------------------------------------------------------------------------
(* Python values and outcomes *)

PyStr(s) == [t |-> "str", s |-> s, n |-> 0]
PyInt(n) == [t |-> "int", s |-> <<>>, n |-> n]

Ok(v) == [ok |-> TRUE, val |-> v, err |-> ""]
Raise(e) == [ok |-> FALSE, val |-> <<>>, err |-> e]

\* str(n) of a natural n: its decimal digits.
RECURSIVE DecStr(_)
DecStr(n) ==
    IF n < 10 THEN <<Ord("0") + n>>
              ELSE DecStr(n \div 10) \o <<Ord("0") + (n % 10)>>

\* int(s) of a string of decimal digits, read over its first k characters.
RECURSIVE ParseIntUpTo(_, _)
ParseIntUpTo(s, k) ==
    IF k = 0 THEN 0 ELSE ParseIntUpTo(s, k - 1) * 10 + (s[k] - Ord("0"))

ParseInt(s) == ParseIntUpTo(s, Len(s))

\* s.replace(ch, rep) for a one-character ch: every occurrence, left to right.
RECURSIVE Replace(_, _, _)
Replace(s, ch, rep) ==
    IF s = <<>> THEN <<>>
    ELSE (IF Head(s) = ch THEN rep ELSE <<Head(s)>>) \o Replace(Tail(s), ch, rep)

\* chr() accepts 0 .. 0x10FFFF.
MaxCodePoint == 1114111

---------------------------------------------------------------------------
(* urllib.parse.unquote *)

IsHex(c) ==
    \/ c \in Ord("0")..Ord("9")
    \/ c \in Ord("a")..Ord("f")
    \/ c \in Ord("A")..Ord("F")

HexVal(c) ==
    IF c \in Ord("0")..Ord("9") THEN c - Ord("0")
    ELSE IF c \in Ord("a")..Ord("f") THEN c - Ord("a") + 10
    ELSE c - Ord("A") + 10

\* The character an escaped byte decodes to: itself when ASCII; a byte that
\* is not part of a valid UTF-8 sequence decodes to U+FFFD (errors='replace').
\* Valid multi-byte UTF-8 sequences of escapes are not modelled.
ByteChar(b) == IF b < 128 THEN b ELSE 65533

\* unquote(s) from position i (1-based): %XX with two hex digits is decoded,
\* any other character, a stray '%' included, is kept.
RECURSIVE UnquoteFrom(_, _)
UnquoteFrom(s, i) ==
    IF i > Len(s) THEN <<>>
    ELSE IF /\ s[i] = Ord("%")
            /\ i + 2 <= Len(s)
            /\ IsHex(s[i + 1])
            /\ IsHex(s[i + 2])
         THEN <<ByteChar(16 * HexVal(s[i + 1]) + HexVal(s[i + 2]))>>
                  \o UnquoteFrom(s, i + 3)
         ELSE <<s[i]>> \o UnquoteFrom(s, i + 1)

unquote(s) == UnquoteFrom(s, 1)

---------------------------------------------------------------------------
(* decode_data *)

\* Mutant of SubstituteFrom: every character is replaced by the decimal string
\* of its first index in part3 at once, so that an introduced digit is never
\* replaced again.
RECURSIVE SubstituteFrom_Simultaneous(_, _, _)
SubstituteFrom_Simultaneous(seg, part3, j) ==
    IF seg = <<>> THEN <<>>
    ELSE (IF \E k \in (j + 1)..Len(part3) : part3[k] = Head(seg)
              THEN DecStr((CHOOSE k \in (j + 1)..Len(part3) :
                              /\ part3[k] = Head(seg)
                              /\ \A m \in (j + 1)..(k - 1) : part3[m] # Head(seg)) - 1)
              ELSE <<Head(seg)>>)
         \o SubstituteFrom_Simultaneous(Tail(seg), part3, j)

\* for j, char in enumerate(part3): segment = segment.replace(char, str(j))
\* the iterations j, j+1, ..., len(part3)-1.
RECURSIVE SubstituteFrom(_, _, _)
SubstituteFrom(seg, part3, j) ==
    IF j >= Len(part3) THEN seg
    ELSE SubstituteFrom(Replace(seg, part3[j + 1], DecStr(j)), part3, j + 1)

Substitute(seg, part3) == SubstituteFrom(seg, part3, 0)

\* part3[part5] of Python for an int part5 within range, negative included.
PyIndex(s, k) == IF k >= 0 THEN s[k + 1] ELSE s[Len(s) + k + 1]

\* The inner while: the first position >= i (0-based) holding the delimiter,
\* or len(part1) when there is none.
RECURSIVE SegmentEnd(_, _, _)
SegmentEnd(part1, delim, i) ==
    IF i < Len(part1) /\ part1[i + 1] # delim
        THEN SegmentEnd(part1, delim, i + 1)
        ELSE i

\* Mutant of DecodeLoop: without the `if segment:` guard.
RECURSIVE DecodeLoop_NoGuard(_, _, _, _, _, _)
DecodeLoop_NoGuard(part1, part3, part4, part5, i, part6) ==
    IF i >= Len(part1) THEN Ok(part6)
    ELSE LET j == SegmentEnd(part1, PyIndex(part3, part5.n), i)
             seg == Substitute(SubSeq(part1, i + 1, j), part3)
             code == ParseInt(decode_segment(seg, part5.n, 10)) - part4.n
         IN  IF part4.t # "int" THEN Raise("TypeError")
             ELSE IF code \notin 0..MaxCodePoint THEN Raise("ValueError")
             ELSE DecodeLoop_NoGuard(part1, part3, part4, part5, j + 1,
                                     Append(part6, code))

\* The outer while from position i (0-based) with accumulator part6, part1
\* and part3 being strs, part5 an int that indexes part3.
RECURSIVE DecodeLoop(_, _, _, _, _, _)
DecodeLoop(part1, part3, part4, part5, i, part6) ==
    IF i >= Len(part1) THEN Ok(part6)
    ELSE LET j == SegmentEnd(part1, PyIndex(part3, part5.n), i)
             seg == Substitute(SubSeq(part1, i + 1, j), part3)
             code == ParseInt(decode_segment(seg, part5.n, 10)) - part4.n
         IN  IF seg = <<>>
                 THEN DecodeLoop(part1, part3, part4, part5, j + 1, part6)
             ELSE IF part4.t # "int" THEN Raise("TypeError")
             ELSE IF code \notin 0..MaxCodePoint THEN Raise("ValueError")
             ELSE DecodeLoop(part1, part3, part4, part5, j + 1,
                             Append(part6, code))

\* Mutant of decode_accumulate: without `part6 = ""`, the accumulator starts
\* from the 6th value of the list.
decode_accumulate_KeepPart6(d) ==
    IF Len(d) # 6 THEN Raise("ValueError")
    ELSE IF d[1].t # "str" THEN Raise("TypeError")
    ELSE IF d[1].s = <<>> THEN Ok(d[6].s)
    ELSE IF d[3].t # "str" \/ d[5].t # "int" THEN Raise("TypeError")
    ELSE IF d[5].n \notin (-Len(d[3].s))..(Len(d[3].s) - 1) THEN Raise("IndexError")
    ELSE DecodeLoop(d[1].s, d[3].s, d[4], d[5], 0, d[6].s)

\* decode_data up to its return: the accumulator part6, or the exception
\*   ValueError  the list does not unpack into six names; chr() out of range
\*   TypeError   len() of an int; part3[part5] with a str part5 or an int
\*               part3; an int minus a str part4
\*   IndexError  part3[part5] out of range
\* part3[part5] is evaluated only once part1 has a character to compare.
decode_accumulate(d) ==
    IF Len(d) # 6 THEN Raise("ValueError")
    ELSE IF d[1].t # "str" THEN Raise("TypeError")
    ELSE IF d[1].s = <<>> THEN Ok(<<>>)
    ELSE IF d[3].t # "str" \/ d[5].t # "int" THEN Raise("TypeError")
    ELSE IF d[5].n \notin (-Len(d[3].s))..(Len(d[3].s) - 1) THEN Raise("IndexError")
    ELSE DecodeLoop(d[1].s, d[3].s, d[4], d[5], 0, <<>>)

\* decode_data(data): unquote of the accumulator.
decode_data(d) ==
    LET acc == decode_accumulate(d)
    IN  IF acc.ok THEN Ok(unquote(acc.val)) ELSE acc

---------------------------------------------------------------------------
(* extract_params, extract_download_url, get_video_url *)

\* s.find(sub, start) for 0 <= start: the lowest 0-based index at or after
\* start where sub occurs, or -1.
Find(s, sub, start) ==
    LET at == {i \in start..(Len(s) - Len(sub)) :
                   SubSeq(s, i + 1, i + Len(sub)) = sub}
    IN  IF at = {} THEN -1 ELSE CHOOSE i \in at : \A j \in at : i <= j

\* s[a:b] of Python, a and b of either sign.
PySlice(s, a, b) ==
    LET from == IF a < 0 THEN Max(Len(s) + a, 0) ELSE Min(a, Len(s))
        to == IF b < 0 THEN Max(Len(s) + b, 0) ELSE Min(b, Len(s))
    IN  SubSeq(s, from + 1, to)

\* s.split(d) for a one-character d: n occurrences give n+1 pieces, empty
\* ones included.
RECURSIVE Split(_, _)
Split(s, d) ==
    IF ~Contains(s, d) THEN <<s>>
    ELSE LET k == IndexOf(s, d) + 1
         IN  <<SubSeq(s, 1, k - 1)>> \o Split(SubSeq(s, k + 1, Len(s)), d)

RECURSIVE LStrip(_, _)
LStrip(s, chars) ==
    IF s # <<>> /\ Head(s) \in chars THEN LStrip(Tail(s), chars) ELSE s

RECURSIVE RStrip(_, _)
RStrip(s, chars) ==
    IF s # <<>> /\ s[Len(s)] \in chars
        THEN RStrip(SubSeq(s, 1, Len(s) - 1), chars)
        ELSE s

\* s.strip(chars): every leading and trailing character of the set removed.
Strip(s, chars) == RStrip(LStrip(s, chars), chars)

\* The ASCII characters str.strip() removes: \t \n \v \f \r, the separators
\* 0x1c..0x1f and the space.
Whitespace == (9..13) \cup (28..32)

ParamsMarker ==
    S(<<"d", "e", "c", "o", "d", "e", "U", "R", "I", "C", "o", "m", "p",
        "o", "n", "e", "n", "t", "(", "e", "s", "c", "a", "p", "e", "(",
        "r", ")", ")", "}", "(">>)

\* extract_params(data): find() returning -1 is not tested, for the marker
\* (start is then len(marker) - 1) nor for the closing "))" (the slice then
\* stops before the last character).
extract_params(txt) ==
    LET start == Find(txt, ParamsMarker, 0) + Len(ParamsMarker)
        end == Find(txt, S(<<")", ")">>), start)
        items == Split(PySlice(txt, start, end), Ord(","))
    IN  [i \in 1..Len(items) |->
            Strip(Strip(items[i], Whitespace), {Ord("\"")})]

SectionStart ==
    S(<<"g", "e", "t", "E", "l", "e", "m", "e", "n", "t", "B", "y", "I",
        "d", "(", "\"", "d", "o", "w", "n", "l", "o", "a", "d", "-", "s",
        "e", "c", "t", "i", "o", "n", "\"", ")", ".", "i", "n", "n", "e",
        "r", "H", "T", "M", "L", " ", "=", " ", "\"">>)

SectionEnd ==
    S(<<"\"", ";", " ", "d", "o", "c", "u", "m", "e", "n", "t", ".", "g",
        "e", "t", "E", "l", "e", "m", "e", "n", "t", "B", "y", "I", "d",
        "(", "\"", "i", "n", "p", "u", "t", "D", "a", "t", "a", "\"", ")",
        ".", "r", "e", "m", "o", "v", "e", "(", ")", ";", " ">>)

\* extract_download_url(data): the same two find() calls, then every
\* backslash removed.
extract_download_url(txt) ==
    LET start == Find(txt, SectionStart, 0) + Len(SectionStart)
        end == Find(txt, SectionEnd, start)
    IN  Replace(PySlice(txt, start, end), Ord("\\"), <<>>)

\* The list extract_params returns, as handed to decode_data: all strs.
AsData(items) == [i \in 1..Len(items) |-> PyStr(items[i])]

\* get_video_url(data)
get_video_url(txt) ==
    LET dec == decode_data(AsData(extract_params(txt)))
    IN  IF dec.ok THEN Ok(extract_download_url(dec.val)) ELSE dec

---------------------------------------------------------------------------
(* get_download_links *)

StartsWith(s, pre) == Len(s) >= Len(pre) /\ SubSeq(s, 1, Len(pre)) = pre

\* ASCII lower-casing: how re.IGNORECASE compares the ASCII letters.
Lower(s) == [i \in 1..Len(s) |->
                IF s[i] \in Ord("A")..Ord("Z") THEN s[i] + 32 ELSE s[i]]

\* re.match(instagram_pattern, url, re.IGNORECASE): a prefix match.
instagram_match(u) ==
    \E scheme \in {S(<<"h", "t", "t", "p", "s">>), S(<<"h", "t", "t", "p">>)},
       kind \in {S(<<"p">>), S(<<"r", "e", "e", "l">>), S(<<"t", "v">>),
                 S(<<"s", "t", "o", "r", "i", "e", "s">>)} :
        StartsWith(Lower(u),
                   scheme
                       \o S(<<":", "/", "/", "w", "w", "w", ".", "i", "n", "s",
                              "t", "a", "g", "r", "a", "m", ".", "c", "o", "m",
                              "/">>)
                       \o kind)

\* re.match(facebook_pattern, url): the whole group is optional and is
\* followed by $, so the pattern matches the empty url, the url "\n", and a
\* facebook url running to the end of the string (or to a final newline)
\* without whitespace (\S+).
facebook_match(u) ==
    \/ u = <<>>
    \/ u = <<10>>
    \/ \E scheme \in {S(<<"h", "t", "t", "p", "s">>), S(<<"h", "t", "t", "p">>)},
          sub \in {<<>>, S(<<"w", "e", "b", ".">>), S(<<"w", "w", "w", ".">>),
                   S(<<"m", ".">>)},
          name \in {S(<<"f", "a", "c", "e", "b", "o", "o", "k">>),
                    S(<<"f", "b">>)},
          tld \in {S(<<"c", "o", "m">>), S(<<"w", "a", "t", "c", "h">>)} :
        LET pre == scheme \o S(<<":", "/", "/">>) \o sub \o name
                       \o S(<<".">>) \o tld
            rest == SubSeq(u, Len(pre) + 1, Len(u))
            core == IF rest # <<>> /\ rest[Len(rest)] = 10
                        THEN SubSeq(rest, 1, Len(rest) - 1)
                        ELSE rest
        IN  /\ StartsWith(u, pre)
            /\ core # <<>>
            /\ \A i \in 1..Len(core) : core[i] \notin Whitespace

\* What get_download_links gives its caller: the dict it returns, or the
\* Exception its except clause raises; cause and msg are the type and (for
\* the raise statements of the function itself) the message of the wrapped
\* error.
Returned(links, u) ==
    [ok |-> TRUE, url |-> links, metadata |-> u,
     err |-> "", cause |-> "", msg |-> ""]
Wrapped(cause, msg) ==
    [ok |-> FALSE, url |-> <<>>, metadata |-> <<>>,
     err |-> "Exception", cause |-> cause, msg |-> msg]

Origin ==
    S(<<"h", "t", "t", "p", "s", ":", "/", "/", "s", "n", "a", "p", "s",
        "a", "v", "e", ".", "a", "p", "p">>)

\* Mutant of CollectLinks: every href is appended as it is.
RECURSIVE CollectLinks_NoPrefix(_)
CollectLinks_NoPrefix(divs) ==
    IF divs = <<>> THEN <<>>
    ELSE (IF Head(divs).anchor /\ Head(divs).href # <<>>
              THEN <<Head(divs).href>>
              ELSE <<>>)
         \o CollectLinks_NoPrefix(Tail(divs))

\* The loop over btn_divs: the href of the first anchor of each element, made
\* absolute when it does not start with http:// or https://.
RECURSIVE CollectLinks(_)
CollectLinks(divs) ==
    IF divs = <<>> THEN <<>>
    ELSE LET btn == Head(divs)
             href == btn.href
             absolute ==
                 \/ StartsWith(href, S(<<"h", "t", "t", "p", ":", "/", "/">>))
                 \/ StartsWith(href, S(<<"h", "t", "t", "p", "s", ":", "/", "/">>))
         IN  (IF btn.anchor /\ href # <<>>
                  THEN <<IF absolute THEN href ELSE Origin \o href>>
                  ELSE <<>>)
             \o CollectLinks(Tail(divs))

\* Mutant of LinksResult: without the `if not download_links: raise`.
LinksResult_NoCheck(divs, u) == Returned(CollectLinks(divs), u)

\* Lines 95-118 on the parsed elements: the links, or "No data found".
LinksResult(divs, u) ==
    LET download_links == CollectLinks(divs)
    IN  IF download_links = <<>>
            THEN Wrapped("ValueError", "No data found")
            ELSE Returned(download_links, u)

\* get_download_links(url) once requests.post has answered resp and
\* BeautifulSoup has found the elements divs in the fragment.
get_download_links(u, resp, divs) ==
    IF ~(facebook_match(u) \/ instagram_match(u))
        THEN Wrapped("ValueError", "Invalid URL")
    ELSE IF ~resp.ok THEN Wrapped(resp.err, "")
    ELSE LET video_page_content == get_video_url(resp.val)
         IN  IF ~video_page_content.ok
                 THEN Wrapped(video_page_content.err, "")
                 ELSE LinksResult(divs, u)

---------------------------------------------------------------------------
(* Bounds and input sets of the harnesses *)

MaxSegLen == 2
MaxSubLen == 3
MaxP1Len == 3

\* The alphabet sizes the decoder's contract covers: 2 .. len(char_set).
Sizes == 2..Len(char_set)

SeqsUpTo(chars, n) == UNION {[1..k -> chars] : k \in 0..n}

\* Digits of base b worth drawing: the first two, the last one, and one
\* character that is no digit of base b.
SampleChars(b) ==
    {char_set[1], char_set[2], char_set[b],
     IF b < Len(char_set) THEN char_set[b + 1] ELSE Ord("%")}

\* Substitution tables: plain ones, one holding a digit that an earlier
\* replacement introduces, one long enough for a two-digit index.
Alphabets ==
    {S(<<"a", "b">>),
     S(<<"a", "b", "c">>),
     S(<<"a", "0", "c">>),
     S(<<"c", "1", "a", "b">>),
     S(<<"d", "e", "f", "g", "h", "i", "j", "k", "b", "c", "a">>)}

CipherChars == {Ord("a"), Ord("b"), Ord("c"), Ord("0")}

\* The values of part4 drawn.
Offsets == {-37, 0, 1}

\* str(n) of an integer.
IntStr(n) == IF n < 0 THEN <<Ord("-")>> \o DecStr(-n) ELSE DecStr(n)

\* The list handed to decode_data; typed: part4 and part5 are ints, else
\* they are the strs extract_params delivers.
Payload(p1, p3, p4, p5, typed) ==
    <<PyStr(p1), PyStr(S(<<"8", "2">>)), PyStr(p3),
      IF typed THEN PyInt(p4) ELSE PyStr(IntStr(p4)),
      IF typed THEN PyInt(p5) ELSE PyStr(IntStr(p5)),
      PyStr(S(<<"4", "6">>))>>

Payloads(maxlen) ==
    {Payload(p1, tbl[1], p4, tbl[2], typed) :
        p1 \in SeqsUpTo(CipherChars, maxlen),
        tbl \in UNION {{<<p3, p5>> : p5 \in 0..Len(p3)} : p3 \in Alphabets},
        p4 \in Offsets,
        typed \in BOOLEAN}

\* Values for the two positions of the list that the loop never reads.
UnusedValues == {PyStr(<<>>), PyStr(S(<<"%", "4", "1">>)), PyInt(7)}

\* The list d with other values at its 2nd and 6th position.
WithUnused(d, p2, p6) == [d EXCEPT ![2] = p2, ![6] = p6]

\* Lists of six values, with several 2nd and 6th values, and some of five
\* and of seven.
DataInputs ==
    Payloads(MaxP1Len)
        \cup {SubSeq(d, 1, 5) : d \in Payloads(1)}
        \cup {Append(d, PyStr(<<>>)) : d \in Payloads(1)}
        \cup {WithUnused(Payload(p1, tbl[1], p4, tbl[2], typed), p2, p6) :
                 p1 \in {<<>>, S(<<"a">>), S(<<"b", "a">>), S(<<"c", "b", "a">>)},
                 tbl \in UNION {{<<p3, p5>> : p5 \in 0..Len(p3)} : p3 \in Alphabets},
                 p4 \in Offsets, typed \in BOOLEAN,
                 p2 \in UnusedValues, p6 \in UnusedValues}

MaxMiddleLen == 2
MaxButtons == 3

\* A field of the argument list: quoted or bare.
Field(content, quoted) ==
    IF quoted THEN <<Ord("\"")>> \o content \o <<Ord("\"")>> ELSE content

\* The fields joined by commas.
RECURSIVE Join(_)
Join(fields) ==
    IF fields = <<>> THEN <<>>
    ELSE IF Len(fields) = 1 THEN fields[1]
    ELSE fields[1] \o <<Ord(",")>> \o Join(Tail(fields))

\* n = 5, 6 or 7 fields: ciphertext p1, a number, the table "abc", p4 = 0,
\* p5, a number, and one more.  The numbers are quoted or bare.
Fields(p1, p5, n, quoted) ==
    SubSeq(<<Field(p1, TRUE), Field(S(<<"8", "2">>), quoted),
             Field(S(<<"a", "b", "c">>), TRUE), Field(S(<<"0">>), quoted),
             Field(p5, quoted), Field(S(<<"4", "6">>), quoted),
             Field(S(<<"7">>), quoted)>>, 1, n)

\* As many characters as find() == -1 makes extract_params skip.
Filler == [i \in 1..(Len(ParamsMarker) - 1) |-> Ord("x")]

\* A response body: a prefix, the marker or not, the argument list, the
\* closing "))" or not, a suffix.
Body(prefix, marked, fields, closed, suffix) ==
    prefix
        \o (IF marked THEN ParamsMarker ELSE <<>>)
        \o Join(fields)
        \o (IF closed THEN S(<<")", ")">>) ELSE <<>>)
        \o suffix

Prefixes == {<<>>, S(<<"e", "v", "a", "l", "(">>), Filler}
Suffixes == {<<>>, S(<<";">>)}
Ciphertexts == {<<>>, S(<<"a">>), S(<<"c", "b", "a">>)}
FifthFields == {S(<<"2">>), S(<<"x">>)}

Bodies ==
    {Body(prefix, marked, Fields(p1, p5, n, quoted), closed, suffix) :
        prefix \in Prefixes, marked \in BOOLEAN, p1 \in Ciphertexts,
        p5 \in FifthFields, n \in 5..7, quoted \in BOOLEAN,
        closed \in BOOLEAN, suffix \in Suffixes}

\* The bodies of the decoder's input contract: the marker, six double-quoted
\* fields with numeric 4th and 5th, the closing "))".
WellFormedBodies ==
    {Body(prefix, TRUE, Fields(p1, S(<<"2">>), 6, TRUE), TRUE, suffix) :
        prefix \in Prefixes, p1 \in Ciphertexts, suffix \in Suffixes}

\* Decoded strings: the two section markers, each present or not, around a
\* middle that may hold backslashes.
DecodedTexts ==
    {prefix \o (IF started THEN SectionStart ELSE <<>>) \o middle
            \o (IF ended THEN SectionEnd ELSE <<>>) \o suffix :
        prefix \in {<<>>, S(<<"x">>)}, started \in BOOLEAN,
        middle \in SeqsUpTo({Ord("a"), Ord("\\"), Ord("<")}, MaxMiddleLen),
        ended \in BOOLEAN, suffix \in {<<>>, S(<<"y">>)}}

Urls ==
    {<<>>,
     S(<<"x">>),
     S(<<"h", "t", "t", "p", "s", ":", "/", "/", "w", "w", "w", ".", "i",
         "n", "s", "t", "a", "g", "r", "a", "m", ".", "c", "o", "m", "/",
         "p", "/", "a", "b", "c">>),
     S(<<"H", "T", "T", "P", ":", "/", "/", "W", "W", "W", ".", "I", "N",
         "S", "T", "A", "G", "R", "A", "M", ".", "C", "O", "M", "/", "R",
         "E", "E", "L", "/", "x">>),
     S(<<"h", "t", "t", "p", "s", ":", "/", "/", "i", "n", "s", "t", "a",
         "g", "r", "a", "m", ".", "c", "o", "m", "/", "p", "/", "a", "b",
         "c">>),
     S(<<"h", "t", "t", "p", "s", ":", "/", "/", "w", "w", "w", ".", "i",
         "n", "s", "t", "a", "g", "r", "a", "m", ".", "c", "o", "m", "/",
         "e", "x", "p", "l", "o", "r", "e">>),
     S(<<"h", "t", "t", "p", "s", ":", "/", "/", "f", "b", ".", "c", "o",
         "m", "/", "v">>),
     S(<<"h", "t", "t", "p", "s", ":", "/", "/", "w", "w", "w", ".", "f",
         "a", "c", "e", "b", "o", "o", "k", ".", "c", "o", "m", "/", "v">>) \o <<10>>}

\* Outcomes of requests.post: a body, or a network error.
Responses == {Ok(b) : b \in Bodies} \cup {Raise("ConnectionError")}

\* A download-items__btn element: whether it holds an anchor, and the
\* anchor's href ("" when it has none).
Button(anchor, href) == [anchor |-> anchor, href |-> href]

Buttons ==
    {Button(FALSE, <<>>),
     Button(TRUE, <<>>),
     Button(TRUE, S(<<"/", "d", "/", "a">>)),
     Button(TRUE, S(<<"h", "t", "t", "p", "x">>)),
     Button(TRUE, S(<<"h", "t", "t", "p", "s", ":", "/", "/", "h", "/", "a">>)),
     Button(TRUE, S(<<"h", "t", "t", "p", ":", "/", "/", "h", "/", "b">>))}

ButtonLists == SeqsUpTo(Buttons, MaxButtons)

\* What soup.find_all can give for a fragment: nothing for the empty
\* document, any list of elements otherwise (the parser is not modelled).
ParseOutcomes(frag) == IF frag = <<>> THEN {<<>>} ELSE ButtonLists

IdleSeg ==
    /\ segment = <<>>
    /\ base = 2
    /\ length = 2
    /\ result = <<>>
    /\ back = <<>>

IdleSub ==
    /\ alphabet = <<>>
    /\ substituted = <<>>

IdleDec ==
    /\ data = <<>>
    /\ accumulated = Ok(<<>>)
    /\ decoded = Ok(<<>>)

IdleVid ==
    /\ text = <<>>
    /\ params = Ok(<<>>)
    /\ fragment = Ok(<<>>)

\* get_download_links has not returned.
NotReturned ==
    [ok |-> FALSE, url |-> <<>>, metadata |-> <<>>,
     err |-> "", cause |-> "", msg |-> ""]

IdleLink ==
    /\ url = <<>>
    /\ response = Ok(<<>>)
    /\ btn_divs = <<>>
    /\ ret = NotReturned

\* Optional values: None, or a str.
None == [some |-> FALSE, s |-> <<>>]
Some(s) == [some |-> TRUE, s |-> s]

\* What instagram_download returned: nothing yet.
NoResult == [kind |-> "none", url |-> <<>>, caption |-> None, has_caption |-> FALSE]

\* No response sent yet.
NoResponse ==
    [status |-> 0, detail |-> "", text |-> "", title |-> None, url |-> None,
     count |-> 0]

\* The sweep before it is started: the names it still has to visit, those
\* whose deletion failed, and whether an exception left the function.
NoSweep ==
    [pc |-> "idle", listed |-> {}, todo |-> {}, failed |-> {}, raised |-> FALSE]

IdleFs ==
    /\ filename = <<>>
    /\ entries = {}
    /\ sweep = NoSweep

IdleReq ==
    /\ endpoint = "none"
    /\ method = "none"
    /\ primary = Ok(NoResult)
    /\ resolved = NoResult
    /\ calls = <<>>
    /\ title = None
    /\ primary_url = None
    /\ final_filepath = None
    /\ files = {}
    /\ http = NoResponse

---------------------------------------------------------------------------
(* Harness of decode_segment: the inputs are drawn, then the function is    *)
(* applied to them, and once more to its own result with the two alphabet   *)
(* sizes exchanged.                                                          *)

InitSeg ==
    /\ pc = "seg_ready"
    /\ base \in Sizes
    /\ length \in Sizes
    /\ segment \in SeqsUpTo(SampleChars(base), MaxSegLen)
    /\ result = <<>>
    /\ back = <<>>
    /\ IdleSub
    /\ IdleDec
    /\ IdleVid
    /\ IdleLink
    /\ IdleReq
    /\ IdleFs

DecodeSegment ==
    /\ pc = "seg_ready"
    /\ result' = decode_segment(segment, base, length)
    /\ back' = decode_segment(result', length, base)
    /\ pc' = "seg_done"
    /\ UNCHANGED <<fsVars, segment, base, length, subVars, decVars, vidVars, linkVars,
                 reqVars>>

NextSeg == DecodeSegment

SpecSeg == InitSeg /\ [][NextSeg]_vars

---------------------------------------------------------------------------
(* Harness of the substitution loop of decode_data *)

InitSub ==
    /\ pc = "sub_ready"
    /\ segment \in SeqsUpTo(CipherChars \cup {Ord("1")}, MaxSubLen)
    /\ alphabet \in Alphabets
    /\ substituted = <<>>
    /\ base = 2
    /\ length = 2
    /\ result = <<>>
    /\ back = <<>>
    /\ IdleDec
    /\ IdleVid
    /\ IdleLink
    /\ IdleReq
    /\ IdleFs

SubstituteSegment ==
    /\ pc = "sub_ready"
    /\ substituted' = Substitute(segment, alphabet)
    /\ pc' = "sub_done"
    /\ UNCHANGED <<fsVars, segVars, alphabet, decVars, vidVars, linkVars,
                 reqVars>>

NextSub == SubstituteSegment

SpecSub == InitSub /\ [][NextSub]_vars

---------------------------------------------------------------------------
(* Harness of decode_data *)

InitDec ==
    /\ pc = "dec_ready"
    /\ data \in DataInputs
    /\ accumulated = Ok(<<>>)
    /\ decoded = Ok(<<>>)
    /\ IdleSeg
    /\ IdleSub
    /\ IdleVid
    /\ IdleLink
    /\ IdleReq
    /\ IdleFs

DecodeData ==
    /\ pc = "dec_ready"
    /\ accumulated' = decode_accumulate(data)
    /\ decoded' = decode_data(data)
    /\ pc' = "dec_done"
    /\ UNCHANGED <<fsVars, segVars, subVars, data, vidVars, linkVars,
                 reqVars>>

NextDec == DecodeData

SpecDec == InitDec /\ [][NextDec]_vars

---------------------------------------------------------------------------
(* Harness of get_video_url: extract_params, decode_data and               *)
(* extract_download_url on a response body.                                *)

InitVideo ==
    /\ pc = "video_ready"
    /\ text \in Bodies
    /\ params = Ok(<<>>)
    /\ fragment = Ok(<<>>)
    /\ IdleSeg
    /\ IdleSub
    /\ IdleDec
    /\ IdleLink
    /\ IdleReq
    /\ IdleFs

GetVideoUrl ==
    /\ pc = "video_ready"
    /\ params' = Ok(extract_params(text))
    /\ data' = AsData(params'.val)
    /\ accumulated' = decode_accumulate(data')
    /\ decoded' = decode_data(data')
    /\ fragment' = get_video_url(text)
    /\ pc' = "video_done"
    /\ UNCHANGED <<fsVars, segVars, subVars, text, linkVars,
                 reqVars>>

NextVideo == GetVideoUrl

SpecVideo == InitVideo /\ [][NextVideo]_vars

---------------------------------------------------------------------------
(* Harness of extract_download_url *)

InitExtract ==
    /\ pc = "extract_ready"
    /\ decoded \in {Ok(t) : t \in DecodedTexts}
    /\ data = <<>>
    /\ accumulated = Ok(<<>>)
    /\ IdleSeg
    /\ IdleSub
    /\ IdleVid
    /\ IdleLink
    /\ IdleReq
    /\ IdleFs

ExtractDownloadUrl ==
    /\ pc = "extract_ready"
    /\ fragment' = Ok(extract_download_url(decoded.val))
    /\ pc' = "extract_done"
    /\ UNCHANGED <<fsVars, segVars, subVars, decVars, text, params, linkVars,
                 reqVars>>

NextExtract == ExtractDownloadUrl

SpecExtract == InitExtract /\ [][NextExtract]_vars

---------------------------------------------------------------------------
(* Harness of get_download_links: the whole call on a url and an outcome   *)
(* of the POST, and its last stage (lines 95-118) on any parsed elements.  *)

InitLinks ==
    /\ \/ /\ pc = "links_ready"
          /\ url \in Urls
          /\ response \in Responses
          /\ btn_divs = <<>>
       \/ /\ pc = "soup_ready"
          /\ url \in {u \in Urls : instagram_match(u)}
          /\ response = Ok(<<>>)
          /\ btn_divs \in ButtonLists
    /\ ret = NotReturned
    /\ IdleSeg
    /\ IdleSub
    /\ IdleDec
    /\ IdleVid
    /\ IdleReq
    /\ IdleFs

GetDownloadLinks ==
    /\ pc = "links_ready"
    /\ LET posted == (facebook_match(url) \/ instagram_match(url)) /\ response.ok
       IN  /\ text' = IF posted THEN response.val ELSE text
           /\ fragment' = IF posted THEN get_video_url(response.val) ELSE fragment
           /\ \E divs \in (IF posted /\ fragment'.ok
                                THEN ParseOutcomes(fragment'.val)
                                ELSE {<<>>}) :
                 /\ btn_divs' = divs
                 /\ ret' = get_download_links(url, response, divs)
    /\ pc' = "links_done"
    /\ UNCHANGED <<fsVars, segVars, subVars, decVars, params, url, response,
                 reqVars>>

LinksFromSoup ==
    /\ pc = "soup_ready"
    /\ ret' = LinksResult(btn_divs, url)
    /\ pc' = "links_done"
    /\ UNCHANGED <<fsVars, segVars, subVars, decVars, vidVars, url, response, btn_divs,
                 reqVars>>

NextLinks == GetDownloadLinks \/ LinksFromSoup

SpecLinks == InitLinks /\ [][NextLinks]_vars

---------------------------------------------------------------------------
(* InstagramDownloader.ig and instagram_download *)

\* get_instagram_post_id(url): re.match of
\*   (?:https?://)?(?:www\.)?instagram\.com/(?:p|tv|stories|reel)/([^/?#&]+).*
\* and its group 1, the longest run of characters other than / ? # & that
\* follows, or None without a match.
get_instagram_post_id(u) ==
    LET stops == {Ord("/"), Ord("?"), Ord("#"), Ord("&")}
        heads ==
            {scheme \o www
                 \o S(<<"i", "n", "s", "t", "a", "g", "r", "a", "m", ".", "c",
                        "o", "m", "/">>)
                 \o kind \o S(<<"/">>) :
                scheme \in {<<>>, S(<<"h", "t", "t", "p", ":", "/", "/">>),
                            S(<<"h", "t", "t", "p", "s", ":", "/", "/">>)},
                www \in {<<>>, S(<<"w", "w", "w", ".">>)},
                kind \in {S(<<"p">>), S(<<"t", "v">>),
                          S(<<"s", "t", "o", "r", "i", "e", "s">>),
                          S(<<"r", "e", "e", "l">>)}}
        found == {h \in heads : /\ StartsWith(u, h)
                                /\ Len(u) > Len(h)
                                /\ u[Len(h) + 1] \notin stops}
    IN  IF found = {} THEN None
        ELSE LET h == CHOOSE x \in found : TRUE
                 rest == SubSeq(u, Len(h) + 1, Len(u))
                 cut == {i \in 1..Len(rest) : rest[i] \in stops}
                 n == IF cut = {} THEN Len(rest)
                      ELSE (CHOOSE i \in cut : \A j \in cut : i <= j) - 1
             IN  Some(SubSeq(rest, 1, n))

\* Truth value of an optional str: None and "" are false.
Truthy(o) == o.some /\ o.s # <<>>

\* a or b
Or(a, b) == IF Truthy(a) THEN a ELSE b

\* The media data of a post as the metadata API gives it: the nodes of
\* edge_sidecar_to_children when sidecar, video_url and display_url, the text
\* of the first caption edge (None without one), and whether the keys owner,
\* edge_media_preview_like, edge_media_to_comment and is_video are all there.
Media(sidecar, nodes, video_url, display_url, caption, complete) ==
    [sidecar |-> sidecar, nodes |-> nodes, video_url |-> video_url,
     display_url |-> display_url, caption |-> caption, complete |-> complete]

Node(video_url, display_url) ==
    [video_url |-> video_url, display_url |-> display_url]

\* The urls of the nodes that have one, in order.
RECURSIVE NodeUrls(_)
NodeUrls(nodes) ==
    IF nodes = <<>> THEN <<>>
    ELSE LET u == Or(Head(nodes).video_url, Head(nodes).display_url)
         IN  (IF Truthy(u) THEN <<u>> ELSE <<>>) \o NodeUrls(Tail(nodes))

\* get_url_from_data(data)
get_url_from_data(m) ==
    IF m.sidecar THEN NodeUrls(m.nodes)
    ELSE <<Or(m.video_url, m.display_url)>>

\* The dict a resolver returns: 'url' and the caption of 'metadata'
\* (has_caption: the key is there), or {'msg': ...}.
LinksDict(urls, has_caption, caption) ==
    [kind |-> "links", url |-> urls, caption |-> caption,
     has_caption |-> has_caption]

\* {'msg': 'Try again later'}
GenericResult ==
    [kind |-> "msg", url |-> <<>>, caption |-> None, has_caption |-> FALSE]

\* Outcome of a resolver call: the dict, or the exception (type, message).
Resolved(v) == [ok |-> TRUE, val |-> v, err |-> "", msg |-> ""]
Failed(e, m) == [ok |-> FALSE, val |-> NoResult, err |-> e, msg |-> m]

\* downloader.ig has not been called.
NotAttempted == Failed("", "")

\* What the POST to the metadata API and response.json() give: net is "ok" or
\* the exception; has_media: data.xdt_shortcode_media is there and not empty.
ApiOutcome(net, has_media, media) ==
    [net |-> net, has_media |-> has_media, media |-> media]

\* downloader.ig(url) when the metadata API answers api.
ig(u, api) ==
    IF ~get_instagram_post_id(u).some
        THEN Failed("ValueError", "Invalid Instagram URL")
    ELSE IF api.net # "ok" THEN Failed(api.net, "")
    ELSE IF ~api.has_media THEN Failed("ValueError", "No media data found")
    ELSE IF ~api.media.complete THEN Failed("KeyError", "")
    ELSE Resolved(LinksDict(get_url_from_data(api.media), TRUE,
                            api.media.caption))

\* The dict get_download_links returns, as a resolver result: its metadata
\* holds the url only.
FromLinks(r) == LinksDict([i \in 1..Len(r.url) |-> Some(r.url[i])], FALSE, None)

\* Mutant of FallbackNeeded: the fallback runs whatever the primary path gave.
FallbackNeeded_Always(p) == TRUE

\* instagram_download: `except Exception` around downloader.ig(url).
FallbackNeeded(p) == ~p.ok

\* Mutant of instagram_download: the error of the fallback is handed on.
instagram_download_Propagate(p, r) ==
    IF p.ok THEN p.val
    ELSE IF r.ok THEN FromLinks(r)
    ELSE [kind |-> r.cause, url |-> <<>>, caption |-> None, has_caption |-> FALSE]

\* instagram_download(url), p the outcome of the primary path and r that of
\* get_download_links (looked at only when the primary path failed).
instagram_download(p, r) ==
    IF p.ok THEN p.val
    ELSE IF r.ok THEN FromLinks(r)
    ELSE GenericResult

---------------------------------------------------------------------------
(* The routes of src/main.py *)

MAX_FILE_SIZE_MB == 500

\* Bytes per megabyte in get_file_size_mb.
MiB == 1048576

\* file_size_mb > MAX_FILE_SIZE_MB for a file of the given size in bytes
\* (the division by 1024 * 1024 is exact).
OverLimit(bytes) == bytes > MAX_FILE_SIZE_MB * MiB

\* A response: the status, the fixed part of its message or detail, the text
\* of an exception formatted into the detail ("" when there is none), and
\* the title, url and item count of a DownloadResponse.
HttpError(status, detail, txt) ==
    [status |-> status, detail |-> detail, text |-> txt, title |-> None,
     url |-> None, count |-> 0]

HttpOk(message, ttl, u, count) ==
    [status |-> 200, detail |-> message, text |-> "", title |-> ttl,
     url |-> u, count |-> count]

\* The exception types caught by `except ValueError`: ValueError and its
\* subclasses, those of requests for a url it cannot send included.
ValueErrors ==
    {"ValueError", "MissingSchema", "InvalidSchema", "InvalidURL",
     "JSONDecodeError", "UnicodeError"}

\* Mutant of RouteError: the exception is swallowed and the request succeeds.
RouteError_Swallow(kind, txt) ==
    [status |-> 200, detail |-> "Instagram content downloaded successfully.",
     text |-> "", title |-> None, url |-> None, count |-> 0]

\* The except clauses of the two Instagram handlers for an exception that is
\* no HTTPException: its text goes into the detail.
RouteError(kind, txt) ==
    IF kind \in ValueErrors
        THEN HttpError(400, "Invalid Instagram URL: ", txt)
        ELSE HttpError(500,
                 "An unexpected error occurred while processing Instagram content: ",
                 txt)

DefaultTitle == S(<<"I", "n", "s", "t", "a", "g", "r", "a", "m", " ", "C", "o", "n", "t",
        "e", "n", "t">>)

\* title[:97] + "..." when len(title) > 100
Truncate(s) ==
    IF Len(s) > 100 THEN SubSeq(s, 1, 97) \o S(<<".", ".", ".">>) ELSE s

\* Mutant of PrimaryUrl: the last element.
PrimaryUrl_Last(download_urls) == download_urls[Len(download_urls)]

\* download_urls[0]
PrimaryUrl(download_urls) == download_urls[1]

\* The handlers up to primary_url, on the dict res that Instagram(url)
\* returned: the response when the handler ends there (done), else the title
\* and the primary url.
RouteResolve(res) ==
    LET ttl == IF res.has_caption THEN res.caption ELSE Some(DefaultTitle)
        stop(r) == [done |-> TRUE, http |-> r, title |-> None,
                    primary_url |-> None, count |-> 0]
    IN  IF res.kind = "msg"
            THEN stop(HttpError(503,
                     "Instagram service temporarily unavailable. Please try again later.",
                     ""))
        ELSE IF res.url = <<>>
            THEN stop(HttpError(404,
                     "No downloadable content found for this Instagram URL.", ""))
        ELSE IF ~ttl.some
            THEN stop(RouteError("TypeError",
                                 "object of type 'NoneType' has no len()"))
        ELSE [done |-> FALSE, http |-> NoResponse,
              title |-> Some(Truncate(ttl.s)),
              primary_url |-> PrimaryUrl(res.url), count |-> Len(res.url)]

\* Whether requests prepares a request for the url: it has the scheme http
\* or https (compared in lower case) and something after it; it raises
\* MissingSchema, InvalidSchema or InvalidURL otherwise, without any call.
RequestsAccepts(u) ==
    \E pre \in {S(<<"h", "t", "t", "p", ":", "/", "/">>),
                S(<<"h", "t", "t", "p", "s", ":", "/", "/">>)} :
        StartsWith(Lower(u), pre) /\ Len(u) > Len(pre)

\* sub in s
In(sub, s) == Find(s, sub, 0) # -1

\* The extension chosen from the content type of the HEAD response, else
\* from the url: what follows its last '.', up to a '?'.
FileExtension(content_type, u) ==
    IF In(S(<<"v", "i", "d", "e", "o">>), content_type)
        THEN S(<<"m", "p", "4">>)
    ELSE IF In(S(<<"i", "m", "a", "g", "e">>), content_type)
        THEN S(<<"j", "p", "g">>)
    ELSE IF Contains(u, Ord("."))
        THEN LET pieces == Split(u, Ord("."))
             IN  Split(pieces[Len(pieces)], Ord("?"))[1]
    ELSE S(<<"j", "p", "g">>)

\* str(uuid.uuid4()) of the request.
DownloadId == S(<<"i", "d">>)

\* The name of the file under DOWNLOAD_DIR.
FileName(stem, ext) == DownloadId \o stem \o S(<<".">>) \o ext

BASE_URL == S(<<"h", "t", "t", "p", "s", ":", "/", "/", "y", "t", "d", "l", "p", ".",
        "a", "n", "t", "i", "d", "o", "n", "a", "s", "i", ".", "w", "e", "b",
        ".", "i", "d">>)

\* f"{BASE_URL}/files/{filename}"
PublicUrl(name) == BASE_URL \o S(<<"/", "f", "i", "l", "e", "s", "/">>) \o name

\* A file of the download directory.
File(name, size) == [name |-> name, size |-> size]

Exists(dir, name) == \E f \in dir : f.name = name

\* os.path.getsize(file_path) in get_file_size_mb: 0 on OSError.
SizeOf(dir, name) ==
    IF Exists(dir, name) THEN (CHOOSE f \in dir : f.name = name).size ELSE 0

\* cleanup_file(file_path)
Cleanup(dir, name) == {f \in dir : f.name # name}

\* open(final_filepath, 'wb') fails when the name leads into a directory
\* that does not exist: the extension taken from the url holds a '/'.
OpenFails(name) == Contains(name, Ord("/"))

\* The except clauses of the six yt-dlp handlers.  what: "audio",
\* "Shorts video" or "video" as the messages spell it.
YtError(ep, kind, txt) ==
    IF kind = "DownloadError" THEN
        IF txt = "Unsupported URL" THEN HttpError(400, "Unsupported URL: ", "")
        ELSE IF txt = "Video unavailable" \/ (txt = "Private video" /\ ep # "audio")
            THEN HttpError(404, "Video not found or unavailable.", "")
        ELSE HttpError(500, "Failed to download: ", txt)
    ELSE IF kind = "FileNotFoundError"
        THEN HttpError(500, "Error processing downloaded file: ", txt)
    ELSE HttpError(500, "An unexpected error occurred: ", txt)

\* The stem of the output template of the endpoint and its merged extension.
Stem(ep) ==
    IF ep = "audio" THEN <<>>
    ELSE IF ep = "shorts" THEN S(<<"_", "s", "h", "o", "r", "t">>)
    ELSE S(<<"_", "v", "i", "d", "e", "o">>)

Expected(ep) ==
    FileName(Stem(ep), IF ep = "audio" THEN S(<<"m", "p", "3">>)
                                       ELSE S(<<"m", "p", "4">>))

\* The files the handler may take as the downloaded one: the expected name
\* if it exists; for shorts and video, else the name with the extension of
\* info_dict, else any file whose name starts with the id and the stem
\* (os.listdir gives no order); for audio, else any such file ending in
\* .mp3.  Empty: FileNotFoundError.
Located(ep, dir, info_ext) ==
    LET prefix == DownloadId \o Stem(ep)
        mine == {f.name : f \in {g \in dir : StartsWith(g.name, prefix)}}
        original == FileName(Stem(ep), info_ext.s)
    IN  IF Exists(dir, Expected(ep)) THEN {Expected(ep)}
        ELSE IF ep = "audio"
            THEN {n \in mine : Len(n) >= 4
                               /\ SubSeq(n, Len(n) - 3, Len(n))
                                      = S(<<".", "m", "p", "3">>)}
        ELSE IF Truthy(info_ext) /\ Exists(dir, original) THEN {original}
        ELSE mine

---------------------------------------------------------------------------
(* get_file and clean_downloads_folder of src/main.py *)

\* What the download directory holds besides the files of `files`: a regular
\* file ("file"), a symbolic link ("link"), a sub-directory ("dir") or
\* something else, a fifo or a socket ("other"); locked: removing it raises.
Entry(name, kind, locked) == [name |-> name, kind |-> kind, locked |-> locked]

\* DOWNLOAD_DIR itself, which create_download_dir makes at startup.
Root == Entry(S(<<".">>), "root", FALSE)

\* os.listdir(DOWNLOAD_DIR)
Listing(dir, ents) == {f.name : f \in dir} \cup {x.name : x \in ents \ {Root}}

\* What the name is in the directory; "gone" when nothing has it.
KindOf(dir, ents, name) ==
    IF Exists(dir, name) THEN "file"
    ELSE IF \E x \in ents \ {Root} : x.name = name
        THEN (CHOOSE x \in ents \ {Root} : x.name = name).kind
    ELSE "gone"

\* os.path.exists(os.path.join(DOWNLOAD_DIR, filename)) for a filename of
\* the route /files/{filename}, which holds no '/': the entry of that name,
\* or for ".." the parent of the download directory.
PathExists(dir, ents, name) ==
    IF Root \notin ents THEN FALSE
    ELSE \/ name = S(<<".", ".">>)
         \/ KindOf(dir, ents, name) # "gone"

\* FileResponse(file_location, ...): the file is sent.
FileResponse(name) ==
    [status |-> 200, detail |-> "FileResponse", text |-> "", title |-> None,
     url |-> Some(name), count |-> 1]

\* get_file(filename): the existence check comes first, the check of the
\* name second.
get_file(name, dir, ents) ==
    IF ~PathExists(dir, ents, name)
        THEN HttpError(404, "File not found", "")
    ELSE IF In(S(<<".", ".">>), name) \/ StartsWith(name, S(<<"/">>))
        THEN HttpError(400, "Invalid filename", "")
    ELSE FileResponse(name)

\* Mutant of Removable: only regular files are removed.
Removable_FilesOnly(kind) == kind = "file"

\* clean_downloads_folder, lines 87-90: os.path.isfile or os.path.islink
\* (os.unlink), elif os.path.isdir (shutil.rmtree); anything else is left.
Removable(kind) == kind \in {"file", "link", "dir"}

\* The exception os.unlink or shutil.rmtree raises on name, "" when it
\* removes it.
RemovalError(ents, name) ==
    IF \E x \in ents : x.name = name /\ x.locked THEN "PermissionError" ELSE ""

\* The exceptions `except Exception` catches, among those of the removal.
CaughtByException == {"PermissionError", "OSError", "FileNotFoundError"}

\* Mutant of Remaining: an entry that could not be removed ends the loop.
Remaining_Abort(todo, name, err) == IF err # "" THEN {} ELSE todo \ {name}

\* The loop of line 84 goes on with the next entry whatever happened to
\* this one: the try of lines 86-92 is inside the loop.
Remaining(todo, name, err) == todo \ {name}

---------------------------------------------------------------------------
(* Harness of the download routes: a request to /download/instagram is     *)
(* followed through instagram_download (the primary path, the POST to the  *)
(* intermediary, get_download_links) and the route handler with its        *)
(* re-hosting; a request to /download/audio, /download/shorts or           *)
(* /download/video through its handler.  A second family of initial states *)
(* enters get_download_links at line 95, with any parsed elements, after a *)
(* failed primary path.                                                    *)

MaxStageButtons == 2

Caption(n) == [i \in 1..n |-> Ord("c")]

VideoUrl == S(<<"h", "t", "t", "p", "s", ":", "/", "/", "c", "d", "n", ".", "x", "/",
        "v", ".", "m", "p", "4", "?", "t", "=", "1">>)
ImageUrl == S(<<"h", "t", "t", "p", "s", ":", "/", "/", "c", "d", "n", ".", "x", "/",
        "i", ".", "j", "p", "g">>)
PlainUrl == S(<<"h", "t", "t", "p", "s", ":", "/", "/", "c", "d", "n", ".", "x", "/",
        "i">>)

NoMedia == Media(FALSE, <<>>, None, None, None, FALSE)

\* Posts: a video with a short caption, an image with no caption and a url
\* without a file extension, a post without any url and a caption of 101
\* characters, one with an empty display_url, one with a url requests
\* cannot send, a carousel with a caption of 100 characters, an empty
\* carousel, a post with a key missing.
Medias ==
    {Media(FALSE, <<>>, Some(VideoUrl), Some(ImageUrl), Some(Caption(2)), TRUE),
     Media(FALSE, <<>>, None, Some(PlainUrl), None, TRUE),
     Media(FALSE, <<>>, None, None, Some(Caption(101)), TRUE),
     Media(FALSE, <<>>, Some(<<>>), Some(<<>>), Some(Caption(2)), TRUE),
     Media(FALSE, <<>>, None, Some(S(<<"x">>)), Some(Caption(2)), TRUE),
     Media(TRUE, <<Node(None, None), Node(None, Some(ImageUrl)),
                   Node(Some(VideoUrl), Some(ImageUrl))>>,
           None, Some(PlainUrl), Some(Caption(100)), TRUE),
     Media(TRUE, <<>>, None, Some(ImageUrl), Some(Caption(2)), TRUE),
     Media(FALSE, <<>>, Some(VideoUrl), None, Some(Caption(2)), FALSE)}

ApiOutcomes ==
    {ApiOutcome("ConnectionError", FALSE, NoMedia),
     ApiOutcome("JSONDecodeError", FALSE, NoMedia),
     ApiOutcome("ok", FALSE, NoMedia)}
        \cup {ApiOutcome("ok", TRUE, m) : m \in Medias}

\* Answers of the intermediary: a well-formed body with a ciphertext, one with
\* an empty ciphertext, one with seven fields, one without the marker; or no
\* answer.
FallbackResponses ==
    {Ok(Body(<<>>, TRUE, Fields(S(<<"c", "b", "a">>), S(<<"2">>), 6, TRUE), TRUE, <<>>)),
     Ok(Body(<<>>, TRUE, Fields(<<>>, S(<<"2">>), 6, TRUE), TRUE, <<>>)),
     Ok(Body(<<>>, TRUE, Fields(<<>>, S(<<"2">>), 7, TRUE), TRUE, <<>>)),
     Ok(Body(Filler, FALSE, Fields(S(<<"a">>), S(<<"2">>), 6, TRUE), TRUE, <<>>)),
     Raise("ConnectionError")}

ContentTypes ==
    {<<>>, S(<<"v", "i", "d", "e", "o", "/", "m", "p", "4">>),
     S(<<"i", "m", "a", "g", "e", "/", "j", "p", "e", "g">>),
     S(<<"t", "e", "x", "t", "/", "h", "t", "m", "l">>)}

\* requests.head: the content-type header of the answer, or an exception.
HeadOutcomes ==
    {[ok |-> TRUE, content_type |-> c] : c \in ContentTypes}
        \cup {[ok |-> FALSE, content_type |-> <<>>]}

\* Sizes in bytes: empty, exactly the limit, one byte more.
FileSizes == {0, MAX_FILE_SIZE_MB * MiB, MAX_FILE_SIZE_MB * MiB + 1}

\* requests.get, raise_for_status and the chunks: a body of some size,
\* complete or broken off after the file was opened, or an exception.
GetOutcomes ==
    {[net |-> "ok", size |-> s, complete |-> TRUE] : s \in FileSizes}
        \cup {[net |-> "ok", size |-> 0, complete |-> FALSE],
              [net |-> "ConnectionError", size |-> 0, complete |-> FALSE],
              [net |-> "HTTPError", size |-> 0, complete |-> FALSE]}

YtEndpoints == {"audio", "shorts", "video"}

YtUrl == S(<<"h", "t", "t", "p", "s", ":", "/", "/", "y", "o", "u", "t", "u", ".",
        "b", "e", "/", "a">>)

\* ydl.extract_info(url, download=True): a DownloadError or another
\* exception, with or without a partial file left behind; or the info_dict
\* (its 'ext') and the files written: the expected one, one with the
\* original extension, only a thumbnail, or none.
YtOutcomes(ep) ==
    LET part == File(FileName(Stem(ep), S(<<"p", "a", "r", "t">>)), 1)
        webm == S(<<"w", "e", "b", "m">>)
        thumb == File(FileName(Stem(ep), S(<<"w", "e", "b", "p">>)), 1)
    IN  {[kind |-> "DownloadError", txt |-> x, written |-> w, info_ext |-> None] :
            x \in {"Unsupported URL", "Video unavailable", "Private video",
                   "HTTP Error 403"},
            w \in {{}, {part}}}
        \cup {[kind |-> "Exception", txt |-> "unexpected", written |-> w,
               info_ext |-> None] : w \in {{}, {part}}}
        \cup {[kind |-> "ok", txt |-> "", written |-> {File(Expected(ep), s)} \cup w,
               info_ext |-> Some(S(<<"m", "p", "4">>))] :
                 s \in FileSizes, w \in {{}, {thumb}}}
        \cup {[kind |-> "ok", txt |-> "", written |-> {File(FileName(Stem(ep), webm), s)} \cup w,
               info_ext |-> e] :
                 s \in FileSizes, w \in {{}, {thumb}}, e \in {None, Some(webm)}}
        \cup {[kind |-> "ok", txt |-> "", written |-> w, info_ext |-> Some(webm)] :
                 w \in {{}, {thumb}}}

Call(name, ok) == [name |-> name, ok |-> ok]

\* The failures of the primary path the second family starts from, with the
\* calls they made.
StagePrimary(u) ==
    {ig(u, api) : api \in {ApiOutcome("ConnectionError", FALSE, NoMedia),
                           ApiOutcome("ok", FALSE, NoMedia)}}

StageCalls(u, p) ==
    (IF get_instagram_post_id(u).some
         THEN <<Call("metadata_post", p.err # "ConnectionError")>>
         ELSE <<>>)
        \o <<Call("intermediary_post", TRUE)>>

InitRequest ==
    /\ \/ /\ pc = "request_ready"
          /\ endpoint = "instagram"
          /\ url \in Urls
          /\ primary = NotAttempted
          /\ calls = <<>>
          /\ btn_divs = <<>>
       \/ /\ pc = "request_ready"
          /\ endpoint \in YtEndpoints
          /\ url = YtUrl
          /\ primary = NotAttempted
          /\ calls = <<>>
          /\ btn_divs = <<>>
       \/ /\ pc = "soup_ready"
          /\ endpoint = "instagram"
          /\ url \in {u \in Urls : instagram_match(u)}
          /\ primary \in StagePrimary(url)
          /\ calls = StageCalls(url, primary)
          /\ btn_divs \in SeqsUpTo(Buttons, MaxStageButtons)
    /\ method \in {"GET", "POST"}
    /\ response = Ok(<<>>)
    /\ ret = NotReturned
    /\ resolved = NoResult
    /\ title = None
    /\ primary_url = None
    /\ final_filepath = None
    /\ files = {}
    /\ http = NoResponse
    /\ filename = <<>>
    /\ entries = {Root}
    /\ sweep = NoSweep
    /\ IdleSeg
    /\ IdleSub
    /\ IdleDec
    /\ IdleVid

\* instagram_download, lines 252-257: downloader.ig(url).
Ig ==
    /\ pc = "request_ready"
    /\ endpoint = "instagram"
    /\ LET sent == get_instagram_post_id(url).some
       IN  \E api \in (IF sent THEN ApiOutcomes
                               ELSE {ApiOutcome("ok", FALSE, NoMedia)}) :
               /\ primary' = ig(url, api)
               /\ calls' = IF sent
                              THEN Append(calls, Call("metadata_post",
                                                      api.net # "ConnectionError"))
                              ELSE calls
    /\ IF FallbackNeeded(primary')
           THEN /\ pc' = "fallback_ready"
                /\ resolved' = resolved
           ELSE /\ pc' = "resolved"
                /\ resolved' = instagram_download(primary', ret)
    /\ UNCHANGED <<fsVars, segVars, subVars, decVars, vidVars, linkVars, endpoint,
                   method, title, primary_url, final_filepath, files, http>>

\* get_download_links, lines 13-91: the url check and the POST.
PostToIntermediary ==
    /\ pc = "fallback_ready"
    /\ IF facebook_match(url) \/ instagram_match(url)
           THEN \E r \in FallbackResponses :
                    /\ response' = r
                    /\ calls' = Append(calls, Call("intermediary_post", r.ok))
           ELSE UNCHANGED <<response, calls>>
    /\ pc' = "links_ready"
    /\ UNCHANGED <<fsVars, segVars, subVars, decVars, vidVars, url, btn_divs, ret,
                   endpoint, method, primary, resolved, title, primary_url,
                   final_filepath, files, http>>

\* instagram_download, lines 259-266: the fallback has returned or raised.
InstagramDownloadReturn ==
    /\ pc = "links_done"
    /\ endpoint = "instagram"
    /\ resolved' = instagram_download(primary, ret)
    /\ pc' = "resolved"
    /\ UNCHANGED <<fsVars, segVars, subVars, decVars, vidVars, linkVars, endpoint,
                   method, primary, calls, title, primary_url, final_filepath,
                   files, http>>

\* download_instagram_get, lines 723-765.
InstagramGet ==
    /\ pc = "resolved"
    /\ method = "GET"
    /\ LET r == RouteResolve(resolved)
       IN  /\ title' = r.title
           /\ primary_url' = r.primary_url
           /\ http' = IF r.done THEN r.http
                      ELSE HttpOk("Instagram content processed successfully.",
                                  r.title, r.primary_url, r.count)
    /\ pc' = "request_done"
    /\ UNCHANGED <<fsVars, segVars, subVars, decVars, vidVars, linkVars, endpoint,
                   method, primary, resolved, calls, final_filepath, files>>

\* download_instagram_post, lines 778-803 and 848-849.
InstagramPost ==
    /\ pc = "resolved"
    /\ method = "POST"
    /\ LET r == RouteResolve(resolved)
       IN  /\ title' = r.title
           /\ primary_url' = r.primary_url
           /\ IF r.done
                  THEN http' = r.http /\ pc' = "request_done"
              ELSE IF ~Truthy(r.primary_url)
                  THEN /\ http' = HttpError(404,
                                     "No downloadable content found for this Instagram URL.",
                                     "")
                       /\ pc' = "request_done"
              ELSE http' = http /\ pc' = "head_ready"
    /\ UNCHANGED <<fsVars, segVars, subVars, decVars, vidVars, linkVars, endpoint,
                   method, primary, resolved, calls, final_filepath, files>>

\* download_instagram_post, lines 804-819: the HEAD request, whose failure is
\* swallowed, and the name of the file.
RehostHead ==
    /\ pc = "head_ready"
    /\ \E h \in (IF RequestsAccepts(primary_url.s) THEN HeadOutcomes
                                                    ELSE {[ok |-> FALSE, content_type |-> <<>>]}) :
          /\ calls' = IF RequestsAccepts(primary_url.s)
                          THEN Append(calls, Call("head", h.ok))
                          ELSE calls
          /\ final_filepath' =
                 Some(FileName(S(<<"_", "i", "n", "s", "t", "a", "g", "r", "a", "m">>),
                               FileExtension(h.content_type, primary_url.s)))
    /\ pc' = "get_ready"
    /\ UNCHANGED <<fsVars, segVars, subVars, decVars, vidVars, linkVars, endpoint,
                   method, primary, resolved, title, primary_url, files, http>>

\* download_instagram_post, lines 821-827: the GET request and the file.
RehostGet ==
    /\ pc = "get_ready"
    /\ IF ~RequestsAccepts(primary_url.s)
           THEN /\ http' = RouteError("MissingSchema", "Invalid URL: No scheme supplied")
                /\ pc' = "request_done"
                /\ UNCHANGED <<calls, files>>
           ELSE \E g \in GetOutcomes :
                    /\ calls' = Append(calls, Call("get", g.net = "ok"))
                    /\ IF g.net # "ok"
                           THEN /\ http' = RouteError(g.net, g.net)
                                /\ pc' = "request_done"
                                /\ files' = files
                       ELSE IF OpenFails(final_filepath.s)
                           THEN /\ http' = RouteError("FileNotFoundError",
                                                      "No such file or directory")
                                /\ pc' = "request_done"
                                /\ files' = files
                       ELSE IF ~g.complete
                           THEN /\ http' = RouteError("ChunkedEncodingError",
                                                      "Connection broken")
                                /\ pc' = "request_done"
                                /\ files' = Cleanup(files, final_filepath.s)
                                                \cup {File(final_filepath.s, g.size)}
                       ELSE /\ http' = http
                            /\ pc' = "size_ready"
                            /\ files' = Cleanup(files, final_filepath.s)
                                            \cup {File(final_filepath.s, g.size)}
    /\ UNCHANGED <<fsVars, segVars, subVars, decVars, vidVars, linkVars, endpoint,
                   method, primary, resolved, title, primary_url,
                   final_filepath>>

\* download_instagram_post, lines 829-847: the size cap and the response.
RehostRespond ==
    /\ pc = "size_ready"
    /\ IF OverLimit(SizeOf(files, final_filepath.s))
           THEN /\ files' = Cleanup(files, final_filepath.s)
                /\ http' = HttpError(400, "File size exceeds the limit", "")
           ELSE /\ files' = files
                /\ http' = HttpOk("Instagram content downloaded successfully.",
                                  title, Some(PublicUrl(final_filepath.s)), 1)
    /\ pc' = "request_done"
    /\ UNCHANGED <<fsVars, segVars, subVars, decVars, vidVars, linkVars, endpoint,
                   method, primary, resolved, calls, title, primary_url,
                   final_filepath>>

\* The yt-dlp handlers up to the size check (audio: lines 207-225): the
\* download and the search for the file it wrote.
YtdlpDownload ==
    /\ pc = "request_ready"
    /\ endpoint \in YtEndpoints
    /\ \E o \in YtOutcomes(endpoint) :
          /\ calls' = Append(calls, Call("yt_dlp", o.kind = "ok"))
          /\ files' = files \cup o.written
          /\ IF o.kind # "ok"
                 THEN /\ http' = YtError(endpoint, o.kind, o.txt)
                      /\ final_filepath' = final_filepath
                      /\ title' = title
                      /\ pc' = "request_done"
             ELSE IF Located(endpoint, files', o.info_ext) = {}
                 THEN /\ http' = YtError(endpoint, "FileNotFoundError", "not found")
                      /\ final_filepath' = Some(Expected(endpoint))
                      /\ title' = Some(S(<<"t">>))
                      /\ pc' = "request_done"
             ELSE /\ \E n \in Located(endpoint, files', o.info_ext) :
                         final_filepath' = Some(n)
                  /\ http' = http
                  /\ title' = Some(S(<<"t">>))
                  /\ pc' = "yt_size_ready"
    /\ UNCHANGED <<fsVars, segVars, subVars, decVars, vidVars, linkVars, endpoint,
                   method, primary, resolved, primary_url>>

\* The yt-dlp handlers from the size check on (audio: lines 227-266): the
\* HTTPException raised for a file over the cap is raised inside the try and
\* no clause re-raises it, so `except Exception` answers.
YtdlpRespond ==
    /\ pc = "yt_size_ready"
    /\ IF OverLimit(SizeOf(files, final_filepath.s))
           THEN /\ files' = Cleanup(files, final_filepath.s)
                /\ http' = YtError(endpoint, "HTTPException",
                                   "File size exceeds the limit")
           ELSE /\ files' = files
                /\ http' = HttpOk("downloaded successfully.", title,
                                  Some(PublicUrl(final_filepath.s)), 1)
    /\ pc' = "request_done"
    /\ UNCHANGED <<fsVars, segVars, subVars, decVars, vidVars, linkVars, endpoint,
                   method, primary, resolved, calls, title, primary_url,
                   final_filepath>>

NextRequest ==
    \/ Ig
    \/ PostToIntermediary
    \/ GetDownloadLinks
    \/ LinksFromSoup
    \/ InstagramDownloadReturn
    \/ InstagramGet
    \/ InstagramPost
    \/ RehostHead
    \/ RehostGet
    \/ RehostRespond
    \/ YtdlpDownload
    \/ YtdlpRespond

SpecRequest == InitRequest /\ [][NextRequest]_vars

---------------------------------------------------------------------------
(* Harness of get_file *)

FileNames ==
    {S(<<".", ".">>), S(<<"a", ".", ".", "b">>), S(<<".", ".", "x">>),
     S(<<"x", ".", ".">>), S(<<"i", "d", ".", "m", "p", "3">>),
     S(<<"n", "o", "p", "e">>)}

\* The files that may lie in the download directory.
ServedFiles ==
    {File(n, 1) : n \in {S(<<"a", ".", ".", "b">>), S(<<".", ".", "x">>),
                         S(<<"x", ".", ".">>), S(<<"i", "d", ".", "m", "p", "3">>)}}

InitFiles ==
    /\ pc = "file_ready"
    /\ filename \in FileNames
    /\ files \in SUBSET ServedFiles
    /\ entries = {Root}
    /\ sweep = NoSweep
    /\ endpoint = "files"
    /\ method = "GET"
    /\ primary = Ok(NoResult)
    /\ resolved = NoResult
    /\ calls = <<>>
    /\ title = None
    /\ primary_url = None
    /\ final_filepath = None
    /\ http = NoResponse
    /\ IdleSeg
    /\ IdleSub
    /\ IdleDec
    /\ IdleVid
    /\ IdleLink

\* GET /files/{filename}
GetFile ==
    /\ pc = "file_ready"
    /\ http' = get_file(filename, files, entries)
    /\ pc' = "file_done"
    /\ UNCHANGED <<fsVars, segVars, subVars, decVars, vidVars, linkVars,
                   endpoint, method, primary, resolved, calls, title,
                   primary_url, final_filepath, files>>

NextFiles == GetFile

SpecFiles == InitFiles /\ [][NextFiles]_vars

---------------------------------------------------------------------------
(* The daily sweep, one step per line of clean_downloads_folder that      *)
(* touches the directory, so that the steps of a request handler can fall *)
(* between them.                                                          *)

\* Lines 82-84 and 94-95: os.path.exists(DOWNLOAD_DIR) and os.listdir.
SweepStart ==
    /\ sweep.pc = "idle"
    /\ sweep' = IF Root \in entries
                    THEN [sweep EXCEPT !.pc = "listed",
                                       !.listed = Listing(files, entries),
                                       !.todo = Listing(files, entries)]
                    ELSE [sweep EXCEPT !.pc = "done"]
    /\ UNCHANGED <<pc, segVars, subVars, decVars, vidVars, linkVars, reqVars,
                   filename, entries>>

\* Lines 84-92: one turn of the loop, on any of the names not yet visited
\* (os.listdir gives no order).
SweepEntry ==
    /\ sweep.pc = "listed"
    /\ \E name \in sweep.todo :
          LET kind == KindOf(files, entries, name)
              err == IF Removable(kind) THEN RemovalError(entries, name) ELSE ""
              removed == Removable(kind) /\ err = ""
          IN  /\ files' = IF removed THEN Cleanup(files, name) ELSE files
              /\ entries' = IF removed THEN {x \in entries : x.name # name}
                                       ELSE entries
              /\ sweep' = [sweep EXCEPT
                              !.todo = Remaining(sweep.todo, name, err),
                              !.failed = IF err # "" THEN @ \cup {name} ELSE @,
                              !.raised = @ \/ (err # "" /\ err \notin CaughtByException)]
    /\ UNCHANGED <<pc, segVars, subVars, decVars, vidVars, linkVars, endpoint,
                   method, primary, resolved, calls, title, primary_url,
                   final_filepath, http, filename>>

\* Line 93: the loop is over.
SweepFinish ==
    /\ sweep.pc = "listed"
    /\ sweep.todo = {}
    /\ sweep' = [sweep EXCEPT !.pc = "done"]
    /\ UNCHANGED <<pc, segVars, subVars, decVars, vidVars, linkVars, reqVars,
                   filename, entries>>

NextSweep ==
    \/ SweepStart
    \/ SweepEntry
    \/ SweepFinish

\* What the sweep may find: files it can remove and one it cannot, a link, a
\* sub-directory it can remove and one it cannot, a fifo.
SweptEntries ==
    {Entry(S(<<"b">>), "file", TRUE),
     Entry(S(<<"l">>), "link", FALSE),
     Entry(S(<<"d">>), "dir", FALSE),
     Entry(S(<<"e">>), "dir", TRUE),
     Entry(S(<<"f">>), "other", FALSE)}

\* The sweep alone: no request is under way.
InitSweep ==
    /\ pc = "sweep_only"
    /\ \/ /\ files \in SUBSET {File(S(<<"a">>), 1), File(Expected("audio"), 1)}
          /\ \E ents \in SUBSET SweptEntries : entries = ents \cup {Root}
       \/ /\ files = {}
          /\ entries = {}
    /\ sweep = NoSweep
    /\ filename = <<>>
    /\ endpoint = "none"
    /\ method = "none"
    /\ primary = Ok(NoResult)
    /\ resolved = NoResult
    /\ calls = <<>>
    /\ title = None
    /\ primary_url = None
    /\ final_filepath = None
    /\ http = NoResponse
    /\ IdleSeg
    /\ IdleSub
    /\ IdleDec
    /\ IdleVid
    /\ IdleLink

SpecSweep == InitSweep /\ [][NextSweep]_vars

\* A request and the sweep side by side: the scheduler runs the sweep while
\* handlers run, and nothing orders their steps.
NextRace ==
    \/ NextRequest
    \/ NextSweep

SpecRace == InitRequest /\ [][NextRace]_vars

---------------------------------------------------------------------------
(* Reference notions of positional notation, used to state the claims.   *)

\* Value of character c as a digit of base n; 0 when it is no such digit.
Digit(c, n) ==
    IF Contains(Slice(char_set, n), c) THEN IndexOf(Slice(char_set, n), c) ELSE 0

\* Value of the first k characters of s read most significant digit first.
RECURSIVE Horner(_, _, _)
Horner(s, n, k) ==
    IF k = 0 THEN 0 ELSE Horner(s, n, k - 1) * n + Digit(s[k], n)

\* s read as a base-n numeral, first character most significant.
NumeralValue(s, n) == Horner(s, n, Len(s))

\* s read with the first character carrying n^0 and the last the highest power.
RECURSIVE LittleEndianFrom(_, _, _)
LittleEndianFrom(s, n, k) ==
    IF k > Len(s) THEN 0
    ELSE Digit(s[k], n) + n * LittleEndianFrom(s, n, k + 1)

LittleEndianValue(s, n) == LittleEndianFrom(s, n, 1)

\* Every character of s is a digit of base n.
OverAlphabet(s, n) == \A i \in 1..Len(s) : Contains(Slice(char_set, n), s[i])

\* s is the canonical base-n numeral of some natural: digits of base n, at
\* least one, and no leading zero digit except in the numeral "0".
Canonical(s, n) ==
    /\ s # <<>>
    /\ OverAlphabet(s, n)
    /\ (Len(s) > 1 => s[1] # char_set[1])

---------------------------------------------------------------------------
(* Claims about decode_segment (checked under SpecSeg) *)

\* C3: round trip.  Converting the canonical base-`base` numeral of a natural
\* to base `length` and converting the result back with the sizes exchanged
\* returns the original numeral.
C3_RoundTrip ==
    (pc = "seg_done" /\ Canonical(segment, base)) => back = segment

C3_Witness ==
    /\ pc = "seg_done"
    /\ Canonical(segment, base)
    /\ Len(segment) = 2
    /\ base = Len(char_set)
    /\ length = 2
    /\ Len(result) > 6
    /\ back = segment

\* C4 as claimed: in a segment of two or more characters the last character
\* carries the highest power of base and the first carries base^0.
C4_Original ==
    (pc = "seg_done" /\ Len(segment) >= 2)
        => NumeralValue(result, length) = LittleEndianValue(segment, base)

\* C4 as amended: the segment is read most significant digit FIRST; the first
\* character carries base^(len-1) and the last character carries base^0.
C4_MostSignificantFirst ==
    (pc = "seg_done" /\ Len(segment) >= 2)
        => NumeralValue(result, length) = NumeralValue(segment, base)

C4_Witness ==
    /\ pc = "seg_done"
    /\ Len(segment) = 2
    /\ OverAlphabet(segment, base)
    /\ NumeralValue(segment, base) # LittleEndianValue(segment, base)
    /\ NumeralValue(result, length) = NumeralValue(segment, base)

\* C5: for a segment over the first `base` characters the result is the
\* canonical base-`length` numeral of the accumulated integer, and it is
\* exactly "0" when that integer is zero (the empty segment included).
C5_CanonicalRendering ==
    (pc = "seg_done" /\ OverAlphabet(segment, base))
        => /\ Canonical(result, length)
           /\ NumeralValue(result, length) = NumeralValue(segment, base)
           /\ (NumeralValue(segment, base) = 0 => result = S(<<"0">>))

C5_Witness ==
    /\ pc = "seg_done"
    /\ segment = <<>>
    /\ result = S(<<"0">>)

---------------------------------------------------------------------------
(* Claims about the substitution loop (checked under SpecSub) *)

\* Concatenation of a sequence of strings.
RECURSIVE Concat(_)
Concat(ss) == IF ss = <<>> THEN <<>> ELSE Head(ss) \o Concat(Tail(ss))

\* The replacements 0 .. n-1 applied one after the other, each to the result
\* of the one before.
RECURSIVE SequentialReplace(_, _, _)
SequentialReplace(seg, tbl, n) ==
    IF n = 0 THEN seg
    ELSE LET before == SequentialReplace(seg, tbl, n - 1)
         IN  Concat([i \in 1..Len(before) |->
                 IF before[i] = tbl[n] THEN DecStr(n - 1) ELSE <<before[i]>>])

\* C6: the substitution is sequential.  The substituted segment is the result
\* of the global replaces of part3[j] by str(j) for j = 0, 1, ... in that
\* order, each applied to the running segment; for part3 = "ab" the segment
\* "a" becomes "0" and the segment "b" becomes "1".
C6_SequentialSubstitution ==
    pc = "sub_done" =>
        /\ substituted = SequentialReplace(segment, alphabet, Len(alphabet))
        /\ (alphabet = S(<<"a", "b">>) /\ segment = S(<<"a">>)
                => substituted = S(<<"0">>))
        /\ (alphabet = S(<<"a", "b">>) /\ segment = S(<<"b">>)
                => substituted = S(<<"1">>))

\* A digit introduced by the replacement of index 0 is replaced again by the
\* replacement of index 1.
C6_Witness ==
    /\ pc = "sub_done"
    /\ alphabet = S(<<"a", "0", "c">>)
    /\ segment = S(<<"a", "c">>)
    /\ substituted = S(<<"1", "2">>)

---------------------------------------------------------------------------
(* Claims about decode_data (checked under SpecDec) *)

\* The pieces the scan of part1 forms: those of Split, without the empty piece
\* that follows a final delimiter (the scan ends there and forms none).
ScannedSegments(s, d) ==
    LET pieces == Split(s, d)
    IN  IF pieces[Len(pieces)] = <<>>
            THEN SubSeq(pieces, 1, Len(pieces) - 1)
            ELSE pieces

NonEmpty(piece) == piece # <<>>

\* decode_data is given integers part4 and part5, 0 <= part5 < len(part3).
IntegerPayload(d) ==
    /\ Len(d) = 6
    /\ d[1].t = "str"
    /\ d[3].t = "str"
    /\ d[4].t = "int"
    /\ d[5].t = "int"
    /\ d[5].n \in 0..(Len(d[3].s) - 1)

\* The code points of the claim: per segment, the substituted segment read
\* as a base-part5 numeral, minus part4.
CodePoints(d, segs) ==
    [i \in 1..Len(segs) |->
        NumeralValue(Substitute(segs[i], d[3].s), d[5].n) - d[4].n]

\* C2 as claimed: every segment of part1, in order, appends exactly one
\* character, of code point (substituted segment in base part5) - part4.
\* Stated for the payloads all of whose segments give a valid code point.
C2_Original ==
    (pc = "dec_done" /\ IntegerPayload(data)) =>
        LET segs == ScannedSegments(data[1].s, PyIndex(data[3].s, data[5].n))
            codes == CodePoints(data, segs)
        IN  (\A i \in 1..Len(codes) : codes[i] \in 0..MaxCodePoint)
                => accumulated = Ok(codes)

\* C2 as amended: every NON-EMPTY segment, in order, appends exactly one such
\* character and an empty segment appends nothing; when one of the code
\* points is no valid code point (outside 0..0x10FFFF) the call raises
\* ValueError instead.
C2_NonEmptySegments ==
    (pc = "dec_done" /\ IntegerPayload(data)) =>
        LET segs == SelectSeq(Split(data[1].s, PyIndex(data[3].s, data[5].n)),
                              NonEmpty)
            codes == CodePoints(data, segs)
        IN  IF \A i \in 1..Len(codes) : codes[i] \in 0..MaxCodePoint
                THEN accumulated = Ok(codes)
                ELSE accumulated = Raise("ValueError")

\* An empty segment that appends nothing before one that appends its
\* character.
C2_Witness ==
    /\ pc = "dec_done"
    /\ IntegerPayload(data)
    /\ data[1].s = S(<<"c", "b", "a">>)
    /\ data[3].s = S(<<"a", "b", "c">>)
    /\ data[5].n = 2
    /\ data[4].n = 0
    /\ accumulated = Ok(<<2>>)

---------------------------------------------------------------------------
(* Claims about the decoder pipeline (checked under SpecVideo) *)

\* The six fields as the decoder's contract binds them: the 4th and the 5th
\* cast to integers.
IntegerBinding(items) ==
    [i \in 1..Len(items) |->
        IF i \in {4, 5} THEN PyInt(ParseInt(items[i])) ELSE PyStr(items[i])]

\* C1: for every body holding the marker, six double-quoted fields with
\* numeric 4th and 5th, and the closing "))", extract_params then decode_data
\* bind p4 and p5 as integers and return the decoded string without raising.
C1_IntegerBinding ==
    (pc = "video_done" /\ text \in WellFormedBodies) =>
        /\ decoded.ok
        /\ decoded = decode_data(IntegerBinding(params.val))

\* C7: parameter extraction on a body without the marker fails with
\* MalformedUpstreamResponse; it returns no parameter list computed from
\* another part of the body, and no generic exception surfaces.
C7_MarkerAbsentFails ==
    (pc = "video_done" /\ Find(text, ParamsMarker, 0) = -1) =>
        /\ ~params.ok
        /\ params.err = "MalformedUpstreamResponse"
        /\ ~fragment.ok
        /\ fragment.err = "MalformedUpstreamResponse"

\* C8: with more than six fields in the argument list, the fields beyond the
\* sixth are ignored: the decoding is that of the first six fields.
C8_ExtraFieldsIgnored ==
    (pc = "video_done" /\ params.ok /\ Len(params.val) > 6) =>
        decoded = decode_data(AsData(SubSeq(params.val, 1, 6)))

---------------------------------------------------------------------------
(* Claim about extract_download_url (checked under SpecExtract) *)

\* C9: on a decoded string lacking the start marker or the end marker (after
\* the start marker) the extraction fails with MalformedUpstreamResponse
\* instead of returning a fragment; with both markers it returns the text
\* between them with every backslash removed.
C9_MarkersRequired ==
    pc = "extract_done" =>
        LET at == Find(decoded.val, SectionStart, 0)
            from == at + Len(SectionStart)
            to == IF at = -1 THEN -1 ELSE Find(decoded.val, SectionEnd, from)
        IN  IF at # -1 /\ to # -1
                THEN fragment =
                         Ok(Replace(SubSeq(decoded.val, from + 1, to),
                                    Ord("\\"), <<>>))
                ELSE ~fragment.ok /\ fragment.err = "MalformedUpstreamResponse"

---------------------------------------------------------------------------
(* Claim about get_download_links (checked under SpecLinks) *)

\* C10: get_download_links never returns an empty success: it returns a
\* result whose url list holds at least one link, or the call fails with an
\* error; with zero download-items__btn elements found it fails.
C10_NoEmptySuccess ==
    pc = "links_done" =>
        /\ ret.ok \/ ret.err = "Exception"
        /\ ret.ok => Len(ret.url) >= 1
        /\ btn_divs = <<>> => ~ret.ok

\* A valid url, a body that decodes to a fragment without any element: the
\* call fails with "No data found".
C10_Witness ==
    /\ pc = "links_done"
    /\ instagram_match(url)
    /\ response.ok
    /\ fragment = Ok(<<>>)
    /\ btn_divs = <<>>
    /\ ret = Wrapped("ValueError", "No data found")

---------------------------------------------------------------------------
(* Claim about the link loop (checked under SpecLinks) *)

HasHref(btn) == btn.anchor /\ btn.href # <<>>

IsAbsolute(href) ==
    \/ StartsWith(href, S(<<"h", "t", "t", "p", ":", "/", "/">>))
    \/ StartsWith(href, S(<<"h", "t", "t", "p", "s", ":", "/", "/">>))

\* The link the contract gives for an href.
LinkOf(href) == IF IsAbsolute(href) THEN href ELSE Origin \o href

\* C12: every href that does not start with http:// or https:// is returned
\* prefixed with https://snapsave.app, every other href is returned unchanged.
C12_RelativePrefixed ==
    (pc = "links_done" /\ ret.ok) =>
        LET with == SelectSeq(btn_divs, HasHref)
        IN  /\ Len(ret.url) = Len(with)
            /\ \A i \in 1..Len(with) :
                   /\ ~IsAbsolute(with[i].href) => ret.url[i] = Origin \o with[i].href
                   /\ IsAbsolute(with[i].href) => ret.url[i] = with[i].href

\* A relative href and an absolute one, both returned.
C12_Witness ==
    /\ pc = "links_done"
    /\ btn_divs = <<Button(TRUE, S(<<"/", "d", "/", "a">>)),
                    Button(TRUE, S(<<"h", "t", "t", "p", ":", "/", "/", "h", "/", "b">>))>>
    /\ ret.ok
    /\ ret.url = <<S(<<"h", "t", "t", "p", "s", ":", "/", "/", "s", "n", "a",
                       "p", "s", "a", "v", "e", ".", "a", "p", "p", "/", "d",
                       "/", "a">>),
                   S(<<"h", "t", "t", "p", ":", "/", "/", "h", "/", "b">>)>>

---------------------------------------------------------------------------
(* Claim about the unused values of the list (checked under SpecDec) *)

\* C20: the result of decode_data does not depend on the 2nd and the 6th
\* value of the list: it is that of the list with fixed values there, the
\* failures included.
C20_UnusedIgnored ==
    (pc = "dec_done" /\ Len(data) = 6) =>
        LET fixed == WithUnused(data, PyStr(<<>>), PyStr(<<>>))
        IN  /\ accumulated = decode_accumulate(fixed)
            /\ decoded = decode_data(fixed)

\* A list whose 2nd value is an int and whose 6th is a non-empty str,
\* decoded as the list with other values there is.
C20_Witness ==
    /\ pc = "dec_done"
    /\ Len(data) = 6
    /\ data[1] = PyStr(S(<<"b", "a">>))
    /\ data[2] = PyInt(7)
    /\ data[3] = PyStr(S(<<"a", "b", "c">>))
    /\ data[4] = PyInt(0)
    /\ data[5] = PyInt(2)
    /\ data[6] = PyStr(S(<<"%", "4", "1">>))
    /\ decoded = Ok(<<2>>)

---------------------------------------------------------------------------
(* Claims about instagram_download and the Instagram routes (checked under *)
(* SpecRequest)                                                            *)

Issued(name) == \E i \in 1..Len(calls) : calls[i].name = name
FailedCall(name) == \E i \in 1..Len(calls) : calls[i] = Call(name, FALSE)

\* The handler has taken the result of instagram_download.
Handled == pc \in {"request_done", "head_ready", "get_ready", "size_ready"}

\* A failure of get_download_links other than "no links": the url check,
\* the POST, the decoding.
Structural(r) == ~r.ok /\ r.msg # "No data found"

\* C11: the failure "no links found" reaches the caller of
\* get_download_links as an error kind distinct from that of the structural
\* failures, and instagram_download answers it differently from them.
C11_NoLinksDistinct ==
    (pc = "request_done" /\ endpoint = "instagram" /\ ~primary.ok
        /\ ~ret.ok /\ ret.msg = "No data found") =>
        \A r \in FallbackResponses :
            LET other == get_download_links(url, r, <<>>)
            IN  Structural(other) =>
                    /\ other.err # ret.err
                    /\ instagram_download(primary, other) # resolved

\* C13: the links of get_download_links are those of the elements that have
\* an href, in document order, and the handlers take element 0 as the primary
\* url: the link of the first element that has an href.
C13_PrimaryIsFirstButton ==
    (endpoint = "instagram" /\ ~primary.ok /\ ret.ok) =>
        LET with == SelectSeq(btn_divs, HasHref)
        IN  /\ ret.url = [i \in 1..Len(with) |-> LinkOf(with[i].href)]
            /\ Handled => primary_url = Some(LinkOf(with[1].href))
            /\ (pc = "request_done" /\ method = "GET") => http.url = primary_url

\* Two elements with an href after one without: the GET handler answers with
\* the link of the first of the two.
C13_Witness ==
    /\ pc = "request_done"
    /\ method = "GET"
    /\ btn_divs = <<Button(TRUE, <<>>),
                    Button(TRUE, S(<<"/", "d", "/", "a">>))>>
    /\ ret.ok
    /\ http.status = 200
    /\ http.url = Some(Origin \o S(<<"/", "d", "/", "a">>))

\* C14: instagram_download returns the result of the primary path when that
\* succeeds, else that of get_download_links when that succeeds, else exactly
\* {'msg': 'Try again later'}; no exception reaches the route.
C14_NeverPropagates ==
    (endpoint = "instagram" /\ (pc = "resolved" \/ Handled)) =>
        /\ resolved.kind \in {"links", "msg"}
        /\ primary.ok => resolved = primary.val
        /\ (~primary.ok /\ ret.ok) =>
               resolved = LinksDict([i \in 1..Len(ret.url) |-> Some(ret.url[i])],
                                    FALSE, None)
        /\ (~primary.ok /\ ~ret.ok) =>
               /\ resolved.kind = "msg"
               /\ resolved = GenericResult

\* Both paths failed, the fallback in the decoder: the generic result.
C14_Witness ==
    /\ pc = "resolved"
    /\ primary = Failed("ConnectionError", "")
    /\ ret = Wrapped("TypeError", "")
    /\ resolved = GenericResult

\* C15: the POST to the intermediary is made only after the primary path was
\* tried and failed; when the primary path succeeds the intermediary is not
\* contacted and the decoder does not run.
C15_FallbackOnlyAfterFailure ==
    endpoint = "instagram" =>
        /\ (Issued("intermediary_post") \/ pc \in {"links_ready", "links_done", "soup_ready"}
               \/ ret # NotReturned)
               => (primary # NotAttempted /\ ~primary.ok)
        /\ \A i, j \in 1..Len(calls) :
               (calls[i].name = "intermediary_post" /\ calls[j].name = "metadata_post")
                   => j < i
        /\ primary.ok =>
               /\ ~Issued("intermediary_post")
               /\ ret = NotReturned
               /\ IdleVid

\* The metadata API did not answer, then the intermediary was asked.
C15_Witness ==
    /\ pc = "links_ready"
    /\ primary = Failed("ConnectionError", "")
    /\ calls = <<Call("metadata_post", FALSE), Call("intermediary_post", TRUE)>>

\* C16: a failure of an Instagram request that is not one of the HTTP errors
\* the handler raises itself is answered with one fixed message: the response
\* never holds the text of the internal exception.
C16_NoExceptionText ==
    (pc = "request_done" /\ endpoint = "instagram" /\ http.status # 200) =>
        http.text = ""

C18_SizeCap ==
    [][(/\ pc \in {"size_ready", "yt_size_ready"}
        /\ OverLimit(SizeOf(files, final_filepath.s))
        /\ pc' = "request_done")
           => (/\ ~Exists(files', final_filepath.s)
               /\ http'.status = 400
               /\ http'.detail = "File size exceeds the limit")]_vars

\* C19: a url from which the primary path extracts no shortcode and which the
\* url check of the fallback rejects is answered with status 400 'Invalid
\* Instagram URL'.
C19_InvalidUrl400 ==
    (pc = "request_done" /\ endpoint = "instagram"
        /\ ~get_instagram_post_id(url).some
        /\ ~(facebook_match(url) \/ instagram_match(url))) =>
        /\ http.status = 400
        /\ http.detail = "Invalid Instagram URL: "


---------------------------------------------------------------------------
(* Claim about the characters outside the base alphabet (checked under     *)
(* SpecSeg)                                                                *)

\* The segment with every character that is no digit of base n replaced by
\* the digit "0".
ZeroOut(s, n) ==
    [i \in 1..Len(s) |->
        IF Contains(Slice(char_set, n), s[i]) THEN s[i] ELSE char_set[1]]

\* C27: a character of the segment that is not among the first `base`
\* characters of the master alphabet contributes zero while still occupying
\* its digit position: the result is that of the same segment with each such
\* character replaced by "0", and its value is the value of that numeral.
C27_ForeignCharsCountZero ==
    pc = "seg_done" =>
        /\ result = decode_segment(ZeroOut(segment, base), base, length)
        /\ NumeralValue(result, length) = NumeralValue(ZeroOut(segment, base), base)

\* "1a" in base 10, where "a" is no digit: the "1" keeps its position.
C27_Witness ==
    /\ pc = "seg_done"
    /\ base = 10
    /\ length = 10
    /\ segment = S(<<"1", "a">>)
    /\ ~OverAlphabet(segment, base)
    /\ result = S(<<"1", "0">>)

---------------------------------------------------------------------------
(* Claims about the download directory (checked under SpecRace, SpecSweep, *)
(* SpecRequest and SpecFiles)                                              *)

\* C21: whatever the interleaving of a download handler with the daily
\* sweep, a handler that answers with success returns a /files/<name> url
\* whose file is in the download directory at the moment the response is
\* produced, the size compared with the cap being the real size of that
\* file.
C21_ServedFileExists ==
    [][(/\ http.status # 200
        /\ http'.status = 200
        /\ final_filepath'.some)
            => /\ http'.url = Some(PublicUrl(final_filepath'.s))
               /\ Exists(files', final_filepath'.s)
               /\ ~OverLimit(SizeOf(files', final_filepath'.s))]_vars

\* The kinds of entries the sweep is to remove.
Swept == {"file", "link", "dir"}

C23_TitleRule ==
    (/\ pc = "request_done"
     /\ endpoint = "instagram"
     /\ resolved.kind = "links"
     /\ resolved.url # <<>>) =>
        LET has == resolved.has_caption /\ resolved.caption.some
            c == resolved.caption.s
        IN  /\ title.some
            /\ Len(title.s) <= 100
            /\ (has /\ Len(c) <= 100) => title.s = c
            /\ (has /\ Len(c) > 100) =>
                   title.s = SubSeq(c, 1, 97) \o S(<<".", ".", ".">>)
            /\ ~has => /\ title.s = DefaultTitle
                       /\ http.detail #
                              "An unexpected error occurred while processing Instagram content: "

\* C24: when a download request ends in failure, no file whose name begins
\* with the download id of the request is left in the download directory.
C24_NoLeftovers ==
    (pc = "request_done" /\ http.status # 200) =>
        \A f \in files : ~StartsWith(f.name, DownloadId)

\* C25: every success response of GET and POST /download/instagram carries a
\* url that is not null, and a resolver result whose 'url' list is empty or
\* starts with a null is answered 404.
C25_SuccessHasUrl ==
    (pc = "request_done" /\ endpoint = "instagram") =>
        /\ http.status = 200 => http.url.some
        /\ (/\ resolved.kind = "links"
            /\ (resolved.url = <<>> \/ ~resolved.url[1].some))
               => /\ http.status = 404
                  /\ http.detail =
                         "No downloadable content found for this Instagram URL."

\* A filename of /files/{filename} the handler is to refuse.
InvalidName(name) ==
    \/ \E i \in 1..(Len(name) - 1) : name[i] = Ord(".") /\ name[i + 1] = Ord(".")
    \/ (name # <<>> /\ name[1] = Ord("/"))

\* C26: a filename that holds ".." or starts with "/" is never answered with
\* the contents of a file and always with 400 "Invalid filename", whether
\* the path exists or not.
C26_InvalidNameRefused ==
    (pc = "file_done" /\ InvalidName(filename)) =>
        /\ http.status = 400
        /\ http.detail = "Invalid filename"


===========================================================================
